---- MODULE Spec2Model ----
(***************************************************************************)
(* go-continuous-fuzz: the task queue, the worker loop, the sandbox run    *)
(* of one fuzz target and the cycle scheduler, as state machines.          *)
(*                                                                         *)
(*   Spec       the program: StartFuzzCycles, scheduleFuzzing, RunWorker   *)
(*              and ExecuteFuzzTarget, one action per step between two     *)
(*              suspension points.  Enqueue and Dequeue hold q.mu for      *)
(*              their whole body, so each is one step here.                *)
(*   SpecQueue  TaskQueue alone, called by concurrent goroutines, with     *)
(*              the lock, the load of q.tasks and its store as separate    *)
(*              steps.                                                     *)
(*   SpecLive   Spec under fair scheduling of the goroutines.              *)
(*   SpecCalc   utils.CalculateFuzzSeconds applied to arguments drawn from *)
(*              bounded sets.                                              *)
(*   SpecBudget the per-target timeout scheduleFuzzing derives from it.    *)
(*   SpecParser the output parser of two fuzz targets over sandbox output  *)
(*              drawn from bounded sets, with re-runs of each target.      *)
(*   SpecCleanup the parser runs of a cycle followed by CleanupWorkspace.   *)
(*   SpecParserIO the parser over a results directory that can fail.       *)
(*   SpecK8s    K8sJob: the fuzzing jobs of one cluster run in parallel.   *)
(*   SpecK8sLive SpecK8s with fair scheduling once a job context is done.  *)
(*   SpecReport addToMaster of the coverage report, called by the workers. *)
(*   SpecURL    utils.SanitizeURL applied to URLs drawn from a bounded set.*)
(***************************************************************************)
EXTENDS Bags, FiniteSets, Integers, Sequences, TLC

(***************************************************************************)
(* Bounds of the model.                                                    *)
(***************************************************************************)
\* largest cfg.Fuzz.NumWorkers, and the number of goroutines of SpecQueue
MaxWorkers == 2
\* largest cfg.Fuzz.SyncFrequency, in whole seconds
MaxSyncSeconds == 2
\* cycles of StartFuzzCycles that are followed
MaxCycles == 2
\* Enqueue calls followed in SpecQueue
MaxEnqueues == 4
\* time is counted in fractions of a second: this many to the second
UnitsPerSecond == 4
\* SpecCalc: the longest syncFrequency (in units), the most workers and the
\* most targets CalculateFuzzSeconds is applied to
MaxCalcUnits == 14
MaxCalcWorkers == 3
MaxCalcTargets == 5
\* longest sandbox output followed by SpecParser, in lines
MaxLines == 3
\* runs of one fuzz target within a cycle followed by SpecParser
MaxRuns == 2
\* seconds of the wall clock followed by SpecK8s
MaxClock == 2
\* calls of addToMaster by one worker followed by SpecReport
MaxReports == 2

Workers == 1 .. MaxWorkers

(***************************************************************************)
(* The repository under test: the packages a configuration can name and    *)
(* the fuzz targets `go test -list=^Fuzz` prints for each.                 *)
(***************************************************************************)
Packages == {"parser", "tree", "docs"}

FuzzTargetsOf(pkg) ==
    CASE pkg = "parser" -> <<"FuzzParse">>
      [] pkg = "tree" -> <<"FuzzWalk">>
      [] OTHER -> <<>>

\* worker.Task
Task == [PackagePath : Packages, Target : {"FuzzParse", "FuzzWalk"}]

NewTask(pkg, target) == [PackagePath |-> pkg, Target |-> target]

\* Task{}: the zero value Dequeue returns with ok = false
ZeroTask == [PackagePath |-> "", Target |-> ""]

NoOwner == 0

VARIABLES
    \* ---- configuration (immutable after load)
    pkgsPath,          \* cfg.Fuzz.PkgsPath
    numWorkers,        \* cfg.Fuzz.NumWorkers
    syncSeconds,       \* cfg.Fuzz.SyncFrequency, whole seconds
    \* ---- StartFuzzCycles
    mpc,               \* position of the lifecycle loop
    cycle,             \* number of the current cycle
    workspace,         \* "clean" | "present": the parent of cfg.Project.SrcDir
    doneChan,          \* "none" | "open" | "closed"
    exitCode,          \* "running" | "exit0" | "exit1" | "returned"
    \* ---- contexts
    parentCancelled,   \* ctx of StartFuzzCycles
    cycleCancelled,    \* cancelCycle() was called on schedulerCtx
    groupCancelled,    \* errgroup cancelled workerCtx
    \* ---- scheduleFuzzing
    spc,               \* position of the scheduler goroutine
    pkgIdx,            \* index of the package being listed
    groupErr,          \* errgroup holds a first error
    \* ---- TaskQueue
    tasks,             \* q.tasks
    mu,                \* q.mu: its holder, or NoOwner
    \* ---- RunWorker / ExecuteFuzzTarget, per worker
    wpc,               \* position
    task,              \* the task dequeued
    isFailing,         \* result of ProcessFuzzStream
    execErr,           \* ExecuteFuzzTarget returned a non-nil error
    budgetElapsed,     \* taskTimeout has passed since start
    sandbox,           \* "none" | "created" | "running" | "exited" | "stopped"
    waitRes,           \* what ContainerWait delivers
    workerErr,         \* RunWorker returned a non-nil error
    leftRunning,       \* a container of an earlier task of the cycle is running
    \* ---- goroutines calling TaskQueue (SpecQueue)
    qpc,               \* position inside Enqueue / Dequeue / Length
    qarg,              \* argument of the running Enqueue
    qsnap,             \* q.tasks as loaded by the running call
    qret,              \* what the running call returns
    enqHist,           \* tasks in the order their Enqueue stored them
    deqHist,           \* tasks in the order successful Dequeues took them
    \* ---- a function applied by itself (SpecCalc)
    callArgs,          \* the arguments of the call
    callRet,           \* what the call returned
    \* ---- the output parser of each fuzz target (SpecParser)
    stream,            \* the lines the log reader of the sandbox delivers
    results,           \* the files of cfg.Fuzz.ResultsPath and their lines
    corpus,            \* the failing inputs under <pkg>/testdata/fuzz
    ppc,               \* where each processor stands
    ppos,              \* lines the scanner has returned so far
    errorData,         \* the local errorData of processFailureLines
    pret,              \* what processFuzzStream returned
    pruns,             \* runs of the target begun so far
    reads,             \* failing inputs read during the run, in order
    logs,              \* the crash log as each crashing run left it
    logFile,           \* fp.logFile of the run: nil, open or closed
    closeCalls,        \* calls of fp.logFile.Close() during the run
    resultsInWorkspace, \* cfg: the results directory lies under the parent of SrcDir
    bucket,            \* the cycles whose corpus was put into cfg.Project.S3BucketName
    \* ---- K8sJob, one per concurrent fuzzing job (SpecK8s)
    clock,             \* time.Now().Unix()
    cluster,           \* names of the Jobs in namespace "default"
    kpc,               \* where Start / WaitAndGetLogs of each job stands
    jobName,           \* the jobName Start generated
    kctx,              \* k.ctx is done
    crashed,           \* what processFuzzStream returned
    observed,          \* what waitForJobCompletion returned on
    pending,           \* the channel send WaitAndGetLogs is at
    failingChan,       \* values sent on failingChan, none received yet
    errChan,           \* values sent on errChan, none received yet
    stopped,           \* Stop was called for the job
    \* ---- the coverage report, one addToMaster caller per worker (SpecReport)
    stateFile,         \* the TargetStates in <reportDir>/state.json
    indexFile,         \* the MasterEntries rendered into <reportDir>/index.html
    rpc,               \* where addToMaster of each caller stands
    rtarget,           \* r.pkg and r.target of the call
    rstates,           \* the local slice `states` of the call
    rcalls,            \* calls of addToMaster each caller has begun
    registered         \* the targets whose addToMaster returned nil

k8sVars ==
    <<clock, cluster, kpc, jobName, kctx, crashed, observed, pending, failingChan,
      errChan, stopped>>
reportVars == <<stateFile, indexFile, rpc, rtarget, rstates, rcalls, registered>>
\* the configuration, the bucket, the Kubernetes jobs and the report: no
\* step of the scheduler, of a worker or of a sandbox run writes to them
cfgVars ==
    <<pkgsPath, numWorkers, syncSeconds, resultsInWorkspace, bucket, k8sVars,
      reportVars>>
lifeVars == <<mpc, cycle, workspace, doneChan, exitCode>>
ctxVars == <<parentCancelled, cycleCancelled, groupCancelled>>
schedVars == <<spc, pkgIdx, groupErr>>
queueVars == <<tasks, mu>>
workerVars ==
    <<wpc, task, isFailing, execErr, budgetElapsed, sandbox, waitRes, workerErr,
      leftRunning>>
callerVars == <<qpc, qarg, qsnap, qret, enqHist, deqHist>>
parserVars ==
    <<stream, results, corpus, ppc, ppos, errorData, pret, pruns, reads, logs,
      logFile, closeCalls>>
fnVars == <<callArgs, callRet, parserVars>>
vars ==
    <<cfgVars, lifeVars, ctxVars, schedVars, queueVars, workerVars, callerVars, fnVars>>

(***************************************************************************)
(* TaskQueue (worker/runner.go)                                            *)
(***************************************************************************)
\* a queue that puts new tasks at the front
EnqueueFront(q, t) == <<t>> \o q

\* q.tasks = append(q.tasks, t)
Enqueue(q, t) == Append(q, t)

\* len(q.tasks) == 0
QueueEmpty(q) == Len(q) = 0

\* t := q.tasks[0]
DequeueTask(q) == Head(q)

\* q.tasks = q.tasks[1:]
DequeueRest(q) == Tail(q)

\* a length that counts one task too many
LengthOffByOne(q) == Len(q) + 1

\* return len(q.tasks)
Length(q) == Len(q)

\* a lock that never makes its caller wait
MutexIgnored(g) == TRUE

\* q.mu.Lock() returns to goroutine g only when nobody holds q.mu
MutexAvailable(g) == mu = NoOwner

(***************************************************************************)
(* SpecQueue: goroutines calling Enqueue, Dequeue and Length on one        *)
(* TaskQueue.  q.mu.Lock(), the load of q.tasks, the store to q.tasks and  *)
(* the return (with the deferred q.mu.Unlock()) are separate steps.  A     *)
(* call's locals and its result live until the call returns.               *)
(***************************************************************************)
QueueTasks == {NewTask("parser", "FuzzParse"), NewTask("tree", "FuzzWalk")}

NoResult == [task |-> ZeroTask, ok |-> FALSE, len |-> 0]

\* the program around the queue does not run in SpecQueue
programIdle ==
    UNCHANGED <<cfgVars, lifeVars, ctxVars, schedVars, workerVars, fnVars>>

\* Enqueue calls that were started
EnqueuesBegun ==
    Len(enqHist)
    + Cardinality({g \in Workers : qpc[g] \in {"enq_load", "enq_store"}})

\* Enqueue: q.mu.Lock()
EnqueueLock(g, t) ==
    /\ qpc[g] = "idle"
    /\ EnqueuesBegun < MaxEnqueues
    /\ MutexAvailable(g)
    /\ mu' = g
    /\ qarg' = [qarg EXCEPT ![g] = t]
    /\ qpc' = [qpc EXCEPT ![g] = "enq_load"]
    /\ UNCHANGED <<tasks, qsnap, qret, enqHist, deqHist>>
    /\ programIdle

\* Enqueue: the load of q.tasks that append starts from
EnqueueLoad(g) ==
    /\ qpc[g] = "enq_load"
    /\ qsnap' = [qsnap EXCEPT ![g] = tasks]
    /\ qpc' = [qpc EXCEPT ![g] = "enq_store"]
    /\ UNCHANGED <<tasks, mu, qarg, qret, enqHist, deqHist>>
    /\ programIdle

\* Enqueue: q.tasks = append(...)
EnqueueStore(g) ==
    /\ qpc[g] = "enq_store"
    /\ tasks' = Enqueue(qsnap[g], qarg[g])
    /\ enqHist' = Append(enqHist, qarg[g])
    /\ qpc' = [qpc EXCEPT ![g] = "unlock"]
    /\ UNCHANGED <<mu, qarg, qsnap, qret, deqHist>>
    /\ programIdle

\* Dequeue: q.mu.Lock()
DequeueLock(g) ==
    /\ qpc[g] = "idle"
    /\ MutexAvailable(g)
    /\ mu' = g
    /\ qpc' = [qpc EXCEPT ![g] = "deq_load"]
    /\ UNCHANGED <<tasks, qarg, qsnap, qret, enqHist, deqHist>>
    /\ programIdle

\* Dequeue: if len(q.tasks) == 0 { return Task{}, false }; t := q.tasks[0]
DequeueLoad(g) ==
    /\ qpc[g] = "deq_load"
    /\ qsnap' = [qsnap EXCEPT ![g] = tasks]
    /\ qpc' = [qpc EXCEPT ![g] = IF QueueEmpty(tasks) THEN "unlock" ELSE "deq_store"]
    /\ UNCHANGED <<tasks, mu, qarg, qret, enqHist, deqHist>>
    /\ programIdle

\* Dequeue: q.tasks = q.tasks[1:]; return t, true
DequeueStore(g) ==
    /\ qpc[g] = "deq_store"
    /\ tasks' = DequeueRest(qsnap[g])
    /\ qret' = [qret EXCEPT ![g] =
                   [task |-> DequeueTask(qsnap[g]), ok |-> TRUE, len |-> 0]]
    /\ deqHist' = Append(deqHist, DequeueTask(qsnap[g]))
    /\ qpc' = [qpc EXCEPT ![g] = "unlock"]
    /\ UNCHANGED <<mu, qarg, qsnap, enqHist>>
    /\ programIdle

\* defer q.mu.Unlock(): Enqueue or Dequeue returns
QueueUnlock(g) ==
    /\ qpc[g] = "unlock"
    /\ mu' = NoOwner
    /\ qpc' = [qpc EXCEPT ![g] = "idle"]
    /\ qarg' = [qarg EXCEPT ![g] = ZeroTask]
    /\ qsnap' = [qsnap EXCEPT ![g] = <<>>]
    /\ qret' = [qret EXCEPT ![g] = NoResult]
    /\ UNCHANGED <<tasks, enqHist, deqHist>>
    /\ programIdle

\* Length is entered: it takes no lock
LengthCall(g) ==
    /\ qpc[g] = "idle"
    /\ qpc' = [qpc EXCEPT ![g] = "len_load"]
    /\ UNCHANGED <<tasks, mu, qarg, qsnap, qret, enqHist, deqHist>>
    /\ programIdle

\* Length: len(q.tasks)
LengthLoad(g) ==
    /\ qpc[g] = "len_load"
    /\ qret' = [qret EXCEPT ![g] = [NoResult EXCEPT !.len = Length(tasks)]]
    /\ qpc' = [qpc EXCEPT ![g] = "len_ret"]
    /\ UNCHANGED <<tasks, mu, qarg, qsnap, enqHist, deqHist>>
    /\ programIdle

\* Length returns
LengthReturn(g) ==
    /\ qpc[g] = "len_ret"
    /\ qret' = [qret EXCEPT ![g] = NoResult]
    /\ qpc' = [qpc EXCEPT ![g] = "idle"]
    /\ UNCHANGED <<tasks, mu, qarg, qsnap, enqHist, deqHist>>
    /\ programIdle

\* no function is applied by itself
NoArgs == <<>>

NoReturn == -1

NoCall == callArgs = NoArgs /\ callRet = NoReturn

\* the callers of SpecQueue before their first call
CallersIdle ==
    /\ qpc = [g \in Workers |-> "idle"]
    /\ qarg = [g \in Workers |-> ZeroTask]
    /\ qsnap = [g \in Workers |-> <<>>]
    /\ qret = [g \in Workers |-> NoResult]
    /\ enqHist = <<>>
    /\ deqHist = <<>>

(***************************************************************************)
(* Contexts.  schedulerCtx is a child of ctx, workerCtx (errgroup) a child *)
(* of schedulerCtx, taskCtx (WithTimeout) a child of workerCtx.            *)
(***************************************************************************)
\* schedulerCtx.Err() != nil
SchedulerCtxErr == parentCancelled \/ cycleCancelled

\* workerCtx.Err() != nil
WorkerCtxErr == SchedulerCtxErr \/ groupCancelled

\* a deadline that every task of the cycle shares
SharedDeadlineErr(w) == WorkerCtxErr \/ \E v \in Workers : budgetElapsed[v]

\* taskCtx.Err() != nil for the task worker w runs
TaskCtxErr(w) == WorkerCtxErr \/ budgetElapsed[w]

\* `if ctx.Err() != nil { return nil }; return fmt.Errorf(...)`: a failed
\* sandbox call is an error of ExecuteFuzzTarget unless its context is done
FailureIsError(w) == ~TaskCtxErr(w)

Running == exitCode = "running"

(***************************************************************************)
(* utils                                                                   *)
(***************************************************************************)
\* a cleanup that is skipped
CleanupSkipped(ws) == {ws}

\* CleanupWorkspace: os.RemoveAll of the parent of SrcDir; a failure is
\* logged and the directory stays.  The states it can leave behind.
CleanupWorkspace(ws) == IF ws = "present" THEN {"clean", "present"} ELSE {"clean"}

\* time.Second, in the unit of the model's durations
Second == UnitsPerSecond

\* a conversion to seconds that rounds up
DurationSecondsRoundedUp(d) == (d + Second - 1) \div Second

\* int(d.Seconds()) for a duration d >= 0: the whole seconds of d
DurationSeconds(d) == d \div Second

\* CalculateFuzzSeconds: the arguments and the result are durations and
\* counts as in the code; Go's integer division on operands >= 0
CalculateFuzzSeconds(syncFrequency, workers, totalTargets) ==
    LET tasksPerWorker == (totalTargets + workers - 1) \div workers
        perTargetSeconds == DurationSeconds(syncFrequency) \div tasksPerWorker
    IN  perTargetSeconds * Second

\* a check that lets a budget of zero through
BudgetRejectsOnlyNegative(fuzzSeconds) == fuzzSeconds < 0

\* if fuzzSeconds <= 0 { ... os.Exit(1) }
BudgetRejected(fuzzSeconds) == fuzzSeconds <= 0

(***************************************************************************)
(* StartFuzzCycles (scheduler/scheduler.go)                                *)
(***************************************************************************)
\* a container that was started and neither exited nor was stopped
StillRunning(sb) == sb = "running"

WorkersOff ==
    /\ wpc' = [w \in Workers |-> "off"]
    /\ task' = [w \in Workers |-> ZeroTask]
    /\ isFailing' = [w \in Workers |-> FALSE]
    /\ execErr' = [w \in Workers |-> FALSE]
    /\ budgetElapsed' = [w \in Workers |-> FALSE]
    /\ sandbox' = [w \in Workers |-> "none"]
    /\ waitRes' = [w \in Workers |-> "none"]
    /\ workerErr' = [w \in Workers |-> FALSE]
    /\ leftRunning' = [w \in Workers |-> FALSE]

\* git.PlainCloneContext succeeds; schedulerCtx and doneChan are made and
\* scheduleFuzzing is started
CloneOK ==
    /\ Running /\ mpc = "clone" /\ cycle <= MaxCycles
    /\ ~parentCancelled
    /\ workspace = "clean"
    /\ workspace' = "present"
    /\ cycleCancelled' = FALSE /\ groupCancelled' = FALSE
    /\ doneChan' = "open"
    /\ spc' = "list" /\ pkgIdx' = 1 /\ groupErr' = FALSE
    /\ tasks' = <<>>
    /\ WorkersOff
    /\ mpc' = "select"
    /\ UNCHANGED <<cfgVars, cycle, exitCode, parentCancelled, mu, callerVars, fnVars>>

\* git.PlainCloneContext fails under a live context (network, credentials):
\* CleanupWorkspace, os.Exit(1)
CloneFail ==
    /\ Running /\ mpc = "clone" /\ cycle <= MaxCycles
    /\ ~parentCancelled
    /\ workspace' \in CleanupWorkspace(workspace)
    /\ exitCode' = "exit1"
    /\ UNCHANGED <<cfgVars, mpc, cycle, doneChan, ctxVars, schedVars, queueVars,
                   workerVars, callerVars, fnVars>>

\* git.PlainCloneContext is called with a ctx that is done and returns its
\* error: the same `if err != nil` block, CleanupWorkspace, os.Exit(1)
CloneCancelled ==
    /\ Running /\ mpc = "clone" /\ cycle <= MaxCycles
    /\ parentCancelled
    /\ workspace' \in CleanupWorkspace(workspace)
    /\ exitCode' = "exit1"
    /\ UNCHANGED <<cfgVars, mpc, cycle, doneChan, ctxVars, schedVars, queueVars,
                   workerVars, callerVars, fnVars>>

\* a receive that does not wait for the channel to be closed
DoneChanNotAwaited == TRUE

\* <-doneChan returns once scheduleFuzzing has closed the channel
DoneChanClosed == doneChan = "closed"

\* select, case <-doneChan: cancelCycle(); CleanupWorkspace; next cycle
SelectDone ==
    /\ Running /\ mpc = "select" /\ DoneChanClosed
    /\ cycleCancelled' = TRUE
    /\ workspace' \in CleanupWorkspace(workspace)
    /\ mpc' = "clone" /\ cycle' = cycle + 1
    /\ UNCHANGED <<cfgVars, doneChan, exitCode, parentCancelled, groupCancelled,
                   schedVars, queueVars, workerVars, callerVars, fnVars>>

\* select, case <-time.After(cfg.Fuzz.SyncFrequency): cancelCycle()
SelectTimer ==
    /\ Running /\ mpc = "select"
    /\ cycleCancelled' = TRUE
    /\ mpc' = "wait_timer"
    /\ UNCHANGED <<cfgVars, cycle, workspace, doneChan, exitCode, parentCancelled,
                   groupCancelled, schedVars, queueVars, workerVars, callerVars, fnVars>>

\* select, case <-ctx.Done(): cancelCycle()
SelectParent ==
    /\ Running /\ mpc = "select" /\ parentCancelled
    /\ cycleCancelled' = TRUE
    /\ mpc' = "wait_parent"
    /\ UNCHANGED <<cfgVars, cycle, workspace, doneChan, exitCode, parentCancelled,
                   groupCancelled, schedVars, queueVars, workerVars, callerVars, fnVars>>

\* after the timer: <-doneChan; CleanupWorkspace; next cycle
TimerCleanup ==
    /\ Running /\ mpc = "wait_timer" /\ DoneChanClosed
    /\ workspace' \in CleanupWorkspace(workspace)
    /\ mpc' = "clone" /\ cycle' = cycle + 1
    /\ UNCHANGED <<cfgVars, doneChan, exitCode, ctxVars, schedVars, queueVars,
                   workerVars, callerVars, fnVars>>

\* after parent cancellation: <-doneChan; CleanupWorkspace; return
ParentCleanup ==
    /\ Running /\ mpc = "wait_parent" /\ DoneChanClosed
    /\ workspace' \in CleanupWorkspace(workspace)
    /\ mpc' = "returned" /\ exitCode' = "returned"
    /\ UNCHANGED <<cfgVars, cycle, doneChan, ctxVars, schedVars, queueVars,
                   workerVars, callerVars, fnVars>>

\* a termination signal cancels the parent context
ParentCancel ==
    /\ Running /\ ~parentCancelled
    /\ parentCancelled' = TRUE
    /\ UNCHANGED <<cfgVars, lifeVars, cycleCancelled, groupCancelled, schedVars,
                   queueVars, workerVars, callerVars, fnVars>>

(***************************************************************************)
(* scheduleFuzzing (scheduler/scheduler.go), fuzz.ListFuzzTargets          *)
(***************************************************************************)
Prefixes(seq) == {SubSeq(seq, 1, n) : n \in 0 .. Len(seq)}

\* ListFuzzTargets without an error: the targets it returns.  When the
\* context is done the error of cmd.Run is ignored and the targets are those
\* of the output printed so far.
ListFuzzTargets(pkg, ctxDone) ==
    IF ctxDone THEN Prefixes(FuzzTargetsOf(pkg)) ELSE {FuzzTargetsOf(pkg)}

\* for _, target := range targets { taskQueue.Enqueue(Task{pkgPath, target}) }
RECURSIVE EnqueueTargets(_, _, _)
EnqueueTargets(q, pkg, targets) ==
    IF targets = <<>> THEN q
    ELSE EnqueueTargets(Enqueue(q, NewTask(pkg, Head(targets))), pkg, Tail(targets))

\* one round of the discovery loop: the package's targets are enqueued
ListTargetsOK ==
    /\ Running /\ spc = "list"
    /\ \E targets \in ListFuzzTargets(pkgsPath[pkgIdx], SchedulerCtxErr) :
          tasks' = EnqueueTargets(tasks, pkgsPath[pkgIdx], targets)
    /\ IF pkgIdx < Len(pkgsPath)
       THEN pkgIdx' = pkgIdx + 1 /\ spc' = spc
       ELSE pkgIdx' = pkgIdx /\ spc' = "queued"
    /\ UNCHANGED <<cfgVars, lifeVars, ctxVars, groupErr, mu, workerVars, callerVars, fnVars>>

\* ListFuzzTargets returns an error: CleanupWorkspace, os.Exit(1)
ListTargetsFail ==
    /\ Running /\ spc = "list"
    /\ ~SchedulerCtxErr
    /\ workspace' \in CleanupWorkspace(workspace)
    /\ exitCode' = "exit1"
    /\ UNCHANGED <<cfgVars, mpc, cycle, doneChan, ctxVars, schedVars, queueVars,
                   workerVars, callerVars, fnVars>>

\* taskQueue.Length() == 0: CleanupWorkspace, os.Exit(0)
NoTargets ==
    /\ Running /\ spc = "queued"
    /\ Length(tasks) = 0
    /\ workspace' \in CleanupWorkspace(workspace)
    /\ exitCode' = "exit0"
    /\ UNCHANGED <<cfgVars, mpc, cycle, doneChan, ctxVars, schedVars, queueVars,
                   workerVars, callerVars, fnVars>>

\* fuzzSeconds <= 0: CleanupWorkspace, os.Exit(1)
InvalidDuration ==
    /\ Running /\ spc = "queued"
    /\ Length(tasks) # 0
    /\ BudgetRejected(CalculateFuzzSeconds(syncSeconds * Second, numWorkers, Length(tasks)))
    /\ workspace' \in CleanupWorkspace(workspace)
    /\ exitCode' = "exit1"
    /\ UNCHANGED <<cfgVars, mpc, cycle, doneChan, ctxVars, schedVars, queueVars,
                   workerVars, callerVars, fnVars>>

\* errgroup.WithContext; g.Go for workers 1 .. cfg.Fuzz.NumWorkers
SpawnWorkers ==
    /\ Running /\ spc = "queued"
    /\ Length(tasks) # 0
    /\ ~BudgetRejected(CalculateFuzzSeconds(syncSeconds * Second, numWorkers, Length(tasks)))
    /\ wpc' = [w \in Workers |-> IF w <= numWorkers THEN "dequeue" ELSE "off"]
    /\ spc' = "wait"
    /\ UNCHANGED <<cfgVars, lifeVars, ctxVars, pkgIdx, groupErr, queueVars, task,
                   isFailing, execErr, budgetElapsed, sandbox, waitRes, workerErr,
                   leftRunning, callerVars, fnVars>>

\* a wait that ends with the first goroutine that returns
AnyWorkerReturned == \E w \in Workers : w <= numWorkers /\ wpc[w] = "done"

\* g.Wait() returns once every goroutine started with g.Go has returned
AllWorkersReturned == \A w \in Workers : w <= numWorkers => wpc[w] = "done"

\* g.Wait() returned an error: CleanupWorkspace, os.Exit(1)
GroupWaitError ==
    /\ Running /\ spc = "wait"
    /\ AllWorkersReturned
    /\ groupErr
    /\ workspace' \in CleanupWorkspace(workspace)
    /\ exitCode' = "exit1"
    /\ UNCHANGED <<cfgVars, mpc, cycle, doneChan, ctxVars, schedVars, queueVars,
                   workerVars, callerVars, fnVars>>

\* g.Wait() returned nil: scheduleFuzzing returns, defer close(doneChan)
GroupWaitDone ==
    /\ Running /\ spc = "wait"
    /\ AllWorkersReturned
    /\ ~groupErr
    /\ spc' = "returned"
    /\ doneChan' = "closed"
    /\ UNCHANGED <<cfgVars, mpc, cycle, workspace, exitCode, ctxVars, pkgIdx,
                   groupErr, queueVars, workerVars, callerVars, fnVars>>

(***************************************************************************)
(* RunWorker (worker/runner.go) and ExecuteFuzzTarget (fuzz/fuzz.go)       *)
(***************************************************************************)
stepUnchanged == UNCHANGED <<cfgVars, lifeVars, spc, pkgIdx, mu, callerVars, fnVars>>
othersUnchanged == stepUnchanged /\ UNCHANGED leftRunning

\* a worker that runs a task whatever Dequeue returned
AfterDequeueAlwaysRun(ok) == "create"

\* where RunWorker goes after Dequeue: `if !ok { return nil }`
AfterDequeue(ok) == IF ok THEN "create" ELSE "done"

\* task, ok := taskQueue.Dequeue(); `if !ok { return nil }`; otherwise
\* start := time.Now() and taskCtx are made for the task
WorkerDequeue(w) ==
    /\ Running /\ wpc[w] = "dequeue"
    /\ IF QueueEmpty(tasks)
       THEN /\ wpc' = [wpc EXCEPT ![w] = AfterDequeue(FALSE)]
            /\ UNCHANGED <<tasks, task, sandbox, leftRunning>>
       ELSE /\ wpc' = [wpc EXCEPT ![w] = AfterDequeue(TRUE)]
            /\ task' = [task EXCEPT ![w] = DequeueTask(tasks)]
            /\ tasks' = DequeueRest(tasks)
            /\ sandbox' = [sandbox EXCEPT ![w] = "none"]
            /\ leftRunning' = [leftRunning EXCEPT ![w] = @ \/ StillRunning(sandbox[w])]
    /\ UNCHANGED <<ctxVars, groupErr, isFailing, execErr, budgetElapsed, waitRes,
                   workerErr>>
    /\ stepUnchanged

ExecSteps == {"create", "start", "logs", "stream", "wait", "select", "cleanup", "stop"}

\* a sandbox call that does not look at its context
CallIgnoresCtx(w) == TRUE

\* a Docker client call made under a context that is done returns an error
CallCanSucceed(w) == ~TaskCtxErr(w)

\* taskTimeout passes while the task runs: the deadline of taskCtx expires
TaskDeadline(w) ==
    /\ Running /\ wpc[w] \in ExecSteps \cup {"returned"}
    /\ ~budgetElapsed[w]
    /\ budgetElapsed' = [budgetElapsed EXCEPT ![w] = TRUE]
    /\ UNCHANGED <<ctxVars, groupErr, tasks, wpc, task, isFailing, execErr, sandbox,
                   waitRes, workerErr>>
    /\ othersUnchanged

\* cli.ContainerCreate; on success the stop of the container is deferred
ContainerCreate(w) ==
    /\ Running /\ wpc[w] = "create"
    /\ \E ok \in BOOLEAN :
          /\ ok => CallCanSucceed(w)
          /\ IF ok
             THEN /\ sandbox' = [sandbox EXCEPT ![w] = "created"]
                  /\ wpc' = [wpc EXCEPT ![w] = "start"]
                  /\ execErr' = execErr
             ELSE /\ sandbox' = sandbox
                  /\ wpc' = [wpc EXCEPT ![w] = "returned"]
                  /\ execErr' = [execErr EXCEPT ![w] = FailureIsError(w)]
    /\ UNCHANGED <<ctxVars, groupErr, tasks, task, isFailing, budgetElapsed, waitRes,
                   workerErr>>
    /\ othersUnchanged

\* cli.ContainerStart
ContainerStart(w) ==
    /\ Running /\ wpc[w] = "start"
    /\ \E ok \in BOOLEAN :
          /\ ok => CallCanSucceed(w)
          /\ IF ok
             THEN /\ sandbox' = [sandbox EXCEPT ![w] = "running"]
                  /\ wpc' = [wpc EXCEPT ![w] = "logs"]
                  /\ execErr' = execErr
             ELSE /\ sandbox' = sandbox
                  /\ wpc' = [wpc EXCEPT ![w] = "stop"]
                  /\ execErr' = [execErr EXCEPT ![w] = FailureIsError(w)]
    /\ UNCHANGED <<ctxVars, groupErr, tasks, task, isFailing, budgetElapsed, waitRes,
                   workerErr>>
    /\ othersUnchanged

\* cli.ContainerLogs
ContainerLogs(w) ==
    /\ Running /\ wpc[w] = "logs"
    /\ \E ok \in BOOLEAN :
          /\ ok => CallCanSucceed(w)
          /\ IF ok
             THEN /\ wpc' = [wpc EXCEPT ![w] = "stream"]
                  /\ execErr' = execErr
             ELSE /\ wpc' = [wpc EXCEPT ![w] = "stop"]
                  /\ execErr' = [execErr EXCEPT ![w] = FailureIsError(w)]
    /\ UNCHANGED <<ctxVars, groupErr, tasks, task, isFailing, budgetElapsed, sandbox,
                   waitRes, workerErr>>
    /\ othersUnchanged

\* processor.ProcessFuzzStream(logsReader): returns when the stream ends,
\* because the container exited or because taskCtx is done; crash tells
\* whether a `--- FAIL:` line was read
ProcessFuzzStream(w) ==
    /\ Running /\ wpc[w] = "stream"
    /\ \E crash \in BOOLEAN, exited \in BOOLEAN :
          /\ ~exited => TaskCtxErr(w)
          /\ isFailing' = [isFailing EXCEPT ![w] = crash]
          /\ sandbox' = [sandbox EXCEPT ![w] = IF exited THEN "exited" ELSE @]
    /\ wpc' = [wpc EXCEPT ![w] = "wait"]
    /\ UNCHANGED <<ctxVars, groupErr, tasks, task, execErr, budgetElapsed, waitRes,
                   workerErr>>
    /\ othersUnchanged

\* cli.ContainerWait: what arrives on errCh or statusCh
ContainerWait(w) ==
    /\ Running /\ wpc[w] = "wait"
    /\ \E r \in {"err", "status0", "statusN"} :
          /\ TaskCtxErr(w) => r = "err"
          /\ waitRes' = [waitRes EXCEPT ![w] = r]
    /\ wpc' = [wpc EXCEPT ![w] = "select"]
    /\ UNCHANGED <<ctxVars, groupErr, tasks, task, isFailing, execErr, budgetElapsed,
                   sandbox, workerErr>>
    /\ othersUnchanged

\* select { case err := <-errCh: ...; case status := <-statusCh: ... }
WaitSelect(w) ==
    /\ Running /\ wpc[w] = "select"
    /\ IF waitRes[w] = "err"
       THEN /\ execErr' = [execErr EXCEPT ![w] = FailureIsError(w)]
            /\ wpc' = [wpc EXCEPT ![w] = "stop"]
       ELSE IF waitRes[w] = "statusN" /\ ~isFailing[w]
       THEN /\ execErr' = [execErr EXCEPT ![w] = TRUE]
            /\ wpc' = [wpc EXCEPT ![w] = "stop"]
       ELSE /\ execErr' = execErr
            /\ wpc' = [wpc EXCEPT ![w] = IF isFailing[w] THEN "cleanup" ELSE "stop"]
    /\ waitRes' = [waitRes EXCEPT ![w] = "none"]
    /\ UNCHANGED <<ctxVars, groupErr, tasks, task, isFailing, budgetElapsed, sandbox,
                   workerErr>>
    /\ othersUnchanged

\* if isFailing { os.RemoveAll(failingInputPath) }
RemoveFailingInput(w) ==
    /\ Running /\ wpc[w] = "cleanup"
    /\ \E ok \in BOOLEAN : execErr' = [execErr EXCEPT ![w] = ~ok]
    /\ wpc' = [wpc EXCEPT ![w] = "stop"]
    /\ UNCHANGED <<ctxVars, groupErr, tasks, task, isFailing, budgetElapsed, sandbox,
                   waitRes, workerErr>>
    /\ othersUnchanged

\* a stop that is called under the context of the task
StopUnderTaskCtx(w) == TaskCtxErr(w)

\* the stop is called under context.Background(), which is never done
StopCtxErr(w) == FALSE

\* deferred: logsReader.Close(); cli.ContainerStop(context.Background(), ...);
\* a failure of the stop is logged
ContainerStop(w) ==
    /\ Running /\ wpc[w] = "stop"
    /\ \E ok \in BOOLEAN :
          /\ ok => ~StopCtxErr(w)
          /\ sandbox' = [sandbox EXCEPT ![w] = IF ok THEN "stopped" ELSE @]
    /\ wpc' = [wpc EXCEPT ![w] = "returned"]
    /\ UNCHANGED <<ctxVars, groupErr, tasks, task, isFailing, execErr, budgetElapsed,
                   waitRes, workerErr>>
    /\ othersUnchanged

\* elapsed >= taskTimeout
RanFullTimeout(w) == budgetElapsed[w]

\* `if elapsed >= taskTimeout { taskQueue.Enqueue(task) }`
ShouldRequeue(w) == RanFullTimeout(w)

\* cancel(); elapsed := time.Since(start); `if err != nil { return ... }`
\* (errgroup keeps the first error and cancels workerCtx); the re-enqueue
WorkerAfterExec(w) ==
    /\ Running /\ wpc[w] = "returned"
    /\ IF execErr[w]
       THEN /\ wpc' = [wpc EXCEPT ![w] = "done"]
            /\ workerErr' = [workerErr EXCEPT ![w] = TRUE]
            /\ groupErr' = TRUE
            /\ groupCancelled' = TRUE
            /\ tasks' = tasks
       ELSE /\ wpc' = [wpc EXCEPT ![w] = "dequeue"]
            /\ tasks' = IF ShouldRequeue(w) THEN Enqueue(tasks, task[w]) ELSE tasks
            /\ UNCHANGED <<workerErr, groupErr, groupCancelled>>
    /\ task' = [task EXCEPT ![w] = ZeroTask]
    /\ isFailing' = [isFailing EXCEPT ![w] = FALSE]
    /\ budgetElapsed' = [budgetElapsed EXCEPT ![w] = FALSE]
    /\ UNCHANGED <<parentCancelled, cycleCancelled, execErr, sandbox, waitRes>>
    /\ othersUnchanged

(***************************************************************************)
(* The output parser (parser.go) and the removal of the failing inputs     *)
(* after a crash (fuzz/fuzz.go).  A line is its text up to the target      *)
(* name, the target name and the input ID that follows it, character by    *)
(* character; every line is short enough for bufio.Scanner to return it.   *)
(***************************************************************************)
\* the fuzz targets whose sandbox output is parsed, one processor each
Parsers == {"FuzzParse", "FuzzWalk"}

HexChars ==
    {"0", "1", "2", "3", "4", "5", "6", "7", "8", "9", "a", "b", "c", "d", "e", "f"}

\* input IDs as `go test` prints them: two files of testdata/fuzz/<target>
\* and the first seed of f.Add
IdA == <<"a", "1">>
IdB == <<"b", "2">>
SeedId == <<"s", "e", "e", "d", "#", "0">>

FailMarker == "--- FAIL:"
WrittenPrefix == "Failing input written to testdata/fuzz/"
SeedPrefix == "failure while testing seed corpus entry: "

PlainLine == [text |-> "fuzz: elapsed: 3s", target |-> "", id |-> <<>>]
FailLine(t) == [text |-> FailMarker, target |-> t, id |-> <<>>]
WrittenLine(t, id) == [text |-> WrittenPrefix, target |-> t, id |-> id]
SeedLine(t, id) == [text |-> SeedPrefix, target |-> t, id |-> id]

\* the lines a sandbox of target t can print
LineShapes == {"plain", "fail", "writtenA", "writtenB", "seed0"}

LineOf(shape, t) ==
    CASE shape = "plain" -> PlainLine
      [] shape = "fail" -> FailLine(t)
      [] shape = "writtenA" -> WrittenLine(t, IdA)
      [] shape = "writtenB" -> WrittenLine(t, IdB)
      [] shape = "seed0" -> SeedLine(t, SeedId)

StreamShapes == UNION {[1 .. n -> LineShapes] : n \in 0 .. MaxLines}

LinesFor(shapes, t) == [i \in 1 .. Len(shapes) |-> LineOf(shapes[i], t)]

\* a scan that takes every line that is not progress output for a failure
ContainsAnyFailure(line) == line.text # PlainLine.text

\* strings.Contains(line, "--- FAIL:")
ContainsFailMarker(line) == line.text = FailMarker

\* (?P<id>[0-9a-f]+): the longest run of hexadecimal digits at the start
RECURSIVE HexPrefix(_)
HexPrefix(chars) ==
    IF chars = <<>> THEN <<>>
    ELSE IF Head(chars) \notin HexChars THEN <<>>
    ELSE <<Head(chars)>> \o HexPrefix(Tail(chars))

\* return "", ""
NoMatch == [target |-> "", id |-> <<>>]

\* fuzzFailureRegex.FindStringSubmatch(line): one of the two prefixes, a
\* non-empty target without "/", "/", and a non-empty hexadecimal id
parseFailureLine(line) ==
    IF /\ line.text \in {WrittenPrefix, SeedPrefix}
       /\ line.target # ""
       /\ HexPrefix(line.id) # <<>>
    THEN [target |-> line.target, id |-> HexPrefix(line.id)]
    ELSE NoMatch

\* var errorData string
NoErrorData == [text |-> "", target |-> "", id |-> <<>>]

TestcaseHeader == "=== Failing testcase"
FailedToRead == "<< failed to read"

\* os.ReadFile(corpusDir/target/id): the input under its header, or the
\* placeholder when the file cannot be read
readFailingInput(files, target, id) ==
    IF <<target, id>> \in files
    THEN [text |-> TestcaseHeader, target |-> target, id |-> id]
    ELSE [text |-> FailedToRead, target |-> target, id |-> id]

\* a crash log named after the run as well
LogPathPerRun(p) == <<p, "_failure.log", pruns[p]>>

\* filepath.Join(cfg.Fuzz.ResultsPath, fp.targetName + "_failure.log")
logPath(p) == <<p, "_failure.log">>

\* os.Create: the file exists and is empty
CreateFile(fs, name) ==
    [n \in (DOMAIN fs) \cup {name} |-> IF n = name THEN <<>> ELSE fs[n]]

\* logFile.WriteString(entry + "\n")
WriteString(fs, name, entry) == [fs EXCEPT ![name] = Append(@, entry)]

\* the failing inputs `go test` wrote before it printed the lines
RECURSIVE FilesNamed(_)
FilesNamed(lines) ==
    IF lines = <<>> THEN {}
    ELSE (IF Head(lines).text = WrittenPrefix
          THEN {<<Head(lines).target, Head(lines).id>>} ELSE {})
         \cup FilesNamed(Tail(lines))

\* a processor that captures from its first line on
EntryStepCapturing == "createLog"

\* processFuzzStream starts with scanUntilFailure
EntryStep == "scanUntilFailure"

\* an extraction that is repeated for every matching line
NeverExtracted(data) == FALSE

\* if errorData != "" { continue }
AlreadyExtracted(data) == data # NoErrorData

\* no processor runs
ParserNotStarted ==
    /\ stream = [p \in Parsers |-> <<>>]
    /\ results = [n \in {} |-> <<>>]
    /\ corpus = {}
    /\ ppc = [p \in Parsers |-> "idle"]
    /\ ppos = [p \in Parsers |-> 0]
    /\ errorData = [p \in Parsers |-> NoErrorData]
    /\ pret = [p \in Parsers |-> FALSE]
    /\ pruns = [p \in Parsers |-> 0]
    /\ reads = [p \in Parsers |-> <<>>]
    /\ logs = [p \in Parsers |-> <<>>]
    /\ logFile = [p \in Parsers |-> "nil"]
    /\ closeCalls = [p \in Parsers |-> 0]
    /\ resultsInWorkspace = FALSE

programUntouched ==
    UNCHANGED <<cfgVars, lifeVars, ctxVars, schedVars, queueVars, workerVars,
                callerVars, callArgs, callRet>>

\* ExecuteFuzzTarget reaches processor.ProcessFuzzStream(logsReader) for a
\* run of target p; a sandbox that runs again can write its failing inputs
\* again
BeginProcessFuzzStream(p) ==
    /\ ppc[p] = "idle" /\ pruns[p] < MaxRuns
    /\ \E rewritten \in BOOLEAN :
          /\ rewritten => pruns[p] >= 1
          /\ corpus' = IF rewritten THEN corpus \cup FilesNamed(stream[p]) ELSE corpus
    /\ pruns' = [pruns EXCEPT ![p] = @ + 1]
    /\ ppc' = [ppc EXCEPT ![p] = EntryStep]
    /\ ppos' = [ppos EXCEPT ![p] = 0]
    /\ errorData' = [errorData EXCEPT ![p] = NoErrorData]
    /\ reads' = [reads EXCEPT ![p] = <<>>]
    /\ logFile' = [logFile EXCEPT ![p] = "nil"]
    /\ closeCalls' = [closeCalls EXCEPT ![p] = 0]
    /\ UNCHANGED <<stream, results, pret, logs>>
    /\ programUntouched

\* scanUntilFailure: one scanner.Scan(); at the end of the stream
\* processFuzzStream returns false
ScanUntilFailure(p) ==
    /\ ppc[p] = "scanUntilFailure"
    /\ IF ppos[p] = Len(stream[p])
       THEN /\ ppc' = [ppc EXCEPT ![p] = "returned"]
            /\ pret' = [pret EXCEPT ![p] = FALSE]
            /\ ppos' = ppos
       ELSE /\ ppos' = [ppos EXCEPT ![p] = @ + 1]
            /\ ppc' = [ppc EXCEPT ![p] =
                          IF ContainsFailMarker(stream[p][ppos[p] + 1])
                          THEN "createLog" ELSE "scanUntilFailure"]
            /\ pret' = pret
    /\ UNCHANGED <<stream, results, corpus, errorData, pruns, reads, logs, logFile,
                   closeCalls>>
    /\ programUntouched

\* processFailureLines up to its loop: EnsureDirExists, os.Create(logPath)
CreateFailureLog(p) ==
    /\ ppc[p] = "createLog"
    /\ results' = CreateFile(results, logPath(p))
    /\ ppc' = [ppc EXCEPT ![p] = "processFailureLines"]
    /\ logFile' = [logFile EXCEPT ![p] = "open"]
    /\ UNCHANGED <<stream, corpus, ppos, errorData, pret, pruns, reads, logs, closeCalls>>
    /\ programUntouched

\* one round of the loop of processFailureLines: the line is written to the
\* log, and parsed unless errorData is set
ProcessFailureLine(p) ==
    /\ ppc[p] = "processFailureLines"
    /\ ppos[p] < Len(stream[p])
    /\ LET line == stream[p][ppos[p] + 1]
           m == parseFailureLine(line)
           skip == AlreadyExtracted(errorData[p]) \/ m.target = "" \/ m.id = <<>>
       IN  /\ results' = WriteString(results, logPath(p), line)
           /\ errorData' = [errorData EXCEPT ![p] =
                               IF skip THEN @
                               ELSE readFailingInput(corpus, m.target, m.id)]
           /\ reads' = [reads EXCEPT ![p] =
                           IF skip THEN @ ELSE Append(@, <<m.target, m.id>>)]
    /\ ppos' = [ppos EXCEPT ![p] = @ + 1]
    /\ UNCHANGED <<stream, corpus, ppc, pret, pruns, logs, logFile, closeCalls>>
    /\ programUntouched

\* a return from processFailureLines that runs no deferred call
NoDeferredClose(n) == n

\* `defer func() { fp.logFile.Close() ... }()`: one call of Close when
\* processFailureLines returns, n calls having been made before
DeferredClose(n) == n + 1

\* the stream ended: errorData, if any, is written after the lines, the log
\* is closed and processFuzzStream returns true
FinishFailureLog(p) ==
    /\ ppc[p] = "processFailureLines"
    /\ ppos[p] = Len(stream[p])
    /\ results' = IF errorData[p] # NoErrorData
                  THEN WriteString(results, logPath(p), errorData[p])
                  ELSE results
    /\ logs' = [logs EXCEPT ![p] = Append(@, results'[logPath(p)])]
    /\ ppc' = [ppc EXCEPT ![p] = "returned"]
    /\ pret' = [pret EXCEPT ![p] = TRUE]
    /\ logFile' = [logFile EXCEPT ![p] = "closed"]
    /\ closeCalls' = [closeCalls EXCEPT ![p] = DeferredClose(@)]
    /\ UNCHANGED <<stream, corpus, ppos, errorData, pruns, reads>>
    /\ programUntouched

\* EnsureDirExists(fp.cfg.FuzzResultsPath) or os.Create(logPath) returns an
\* error: it is logged and processFailureLines returns before fp.logFile is
\* set and before the Close is deferred; processFuzzStream returns true
CreateFailureLogFails(p) ==
    /\ ppc[p] = "createLog"
    /\ ppc' = [ppc EXCEPT ![p] = "returned"]
    /\ pret' = [pret EXCEPT ![p] = TRUE]
    /\ UNCHANGED <<stream, results, corpus, ppos, errorData, pruns, reads, logs,
                   logFile, closeCalls>>
    /\ programUntouched

\* fp.logFile.WriteString returns an error, for a line the scanner returned
\* or for errorData after the stream ended: it is logged, processFailureLines
\* returns, the deferred Close runs and processFuzzStream returns true
WriteStringFails(p) ==
    /\ ppc[p] = "processFailureLines"
    /\ ppos[p] < Len(stream[p]) \/ errorData[p] # NoErrorData
    /\ ppos' = [ppos EXCEPT ![p] = IF @ < Len(stream[p]) THEN @ + 1 ELSE @]
    /\ logs' = [logs EXCEPT ![p] = Append(@, results[logPath(p)])]
    /\ ppc' = [ppc EXCEPT ![p] = "returned"]
    /\ pret' = [pret EXCEPT ![p] = TRUE]
    /\ logFile' = [logFile EXCEPT ![p] = "closed"]
    /\ closeCalls' = [closeCalls EXCEPT ![p] = DeferredClose(@)]
    /\ UNCHANGED <<stream, results, corpus, errorData, pruns, reads>>
    /\ programUntouched

\* ExecuteFuzzTarget after the stream: if isFailing, os.RemoveAll of
\* <pkg>/testdata/fuzz/<target>
RemoveFailingInputs(p) ==
    /\ ppc[p] = "returned"
    /\ corpus' = IF pret[p] THEN {f \in corpus : f[1] # p} ELSE corpus
    /\ ppc' = [ppc EXCEPT ![p] = "idle"]
    /\ UNCHANGED <<stream, results, ppos, errorData, pret, pruns, reads, logs, logFile,
                   closeCalls>>
    /\ programUntouched

(***************************************************************************)
(* Specifications                                                          *)
(***************************************************************************)
\* cfg.Fuzz.PkgsPath: the package lists followed; the loader accepts any
\* non-empty list, one that repeats a package included
\* the two jobs TestKubernetesRace launches in parallel
NumJobs == 2
\* errorChan := make(chan error, 1)
ChanCap == 1
Jobs == 1 .. NumJobs
NoName == <<>>

\* the K8sJob values before Start, an empty namespace
K8sNotStarted ==
    /\ clock = 0 /\ cluster = {}
    /\ kpc = [k \in Jobs |-> "idle"]
    /\ jobName = [k \in Jobs |-> NoName]
    /\ kctx = [k \in Jobs |-> FALSE]
    /\ crashed = [k \in Jobs |-> FALSE]
    /\ observed = [k \in Jobs |-> "none"]
    /\ pending = [k \in Jobs |-> <<>>]
    /\ failingChan = [k \in Jobs |-> <<>>]
    /\ errChan = [k \in Jobs |-> <<>>]
    /\ stopped = [k \in Jobs |-> FALSE]

\* TargetState{PkgPath, Target}, each name given by its place in the
\* lexicographic order of the names
NoTarget == <<0, 0>>

\* an empty report directory and no caller inside addToMaster
ReportNotStarted ==
    /\ stateFile = <<>> /\ indexFile = <<>>
    /\ rpc = [w \in Workers |-> "idle"]
    /\ rtarget = [w \in Workers |-> NoTarget]
    /\ rstates = [w \in Workers |-> <<>>]
    /\ rcalls = [w \in Workers |-> 0]
    /\ registered = {}

PkgLists ==
    {<<"parser">>, <<"docs">>, <<"parser", "tree">>, <<"parser", "parser">>}

Init ==
    /\ pkgsPath \in PkgLists
    /\ bucket = {}
    /\ K8sNotStarted
    /\ ReportNotStarted
    /\ numWorkers \in 1 .. MaxWorkers
    /\ syncSeconds \in 1 .. MaxSyncSeconds
    /\ mpc = "clone" /\ cycle = 1 /\ workspace = "clean"
    /\ doneChan = "none" /\ exitCode = "running"
    /\ parentCancelled = FALSE /\ cycleCancelled = FALSE /\ groupCancelled = FALSE
    /\ spc = "off" /\ pkgIdx = 1 /\ groupErr = FALSE
    /\ tasks = <<>> /\ mu = NoOwner
    /\ wpc = [w \in Workers |-> "off"]
    /\ task = [w \in Workers |-> ZeroTask]
    /\ isFailing = [w \in Workers |-> FALSE]
    /\ execErr = [w \in Workers |-> FALSE]
    /\ budgetElapsed = [w \in Workers |-> FALSE]
    /\ sandbox = [w \in Workers |-> "none"]
    /\ waitRes = [w \in Workers |-> "none"]
    /\ workerErr = [w \in Workers |-> FALSE]
    /\ leftRunning = [w \in Workers |-> FALSE]
    /\ CallersIdle
    /\ NoCall
    /\ ParserNotStarted

Next ==
    \/ CloneOK \/ CloneFail \/ CloneCancelled
    \/ SelectDone \/ SelectTimer \/ SelectParent
    \/ TimerCleanup \/ ParentCleanup \/ ParentCancel
    \/ ListTargetsOK \/ ListTargetsFail
    \/ NoTargets \/ InvalidDuration \/ SpawnWorkers
    \/ GroupWaitError \/ GroupWaitDone
    \/ \E w \in Workers :
          \/ WorkerDequeue(w) \/ TaskDeadline(w)
          \/ ContainerCreate(w) \/ ContainerStart(w) \/ ContainerLogs(w)
          \/ ProcessFuzzStream(w) \/ ContainerWait(w) \/ WaitSelect(w)
          \/ RemoveFailingInput(w) \/ ContainerStop(w)
          \/ WorkerAfterExec(w)

Spec == Init /\ [][Next]_vars

\* SpecQueue: a TaskQueue and the goroutines that call it; the program
\* around it does not run.  ProgramNotStarted is the program before
\* StartFuzzCycles and with no caller inside the queue.
ProgramNotStarted ==
    /\ pkgsPath = <<"parser">> /\ numWorkers = MaxWorkers /\ syncSeconds = MaxSyncSeconds
    /\ bucket = {}
    /\ K8sNotStarted
    /\ ReportNotStarted
    /\ mpc = "clone" /\ cycle = 1 /\ workspace = "clean"
    /\ doneChan = "none" /\ exitCode = "running"
    /\ parentCancelled = FALSE /\ cycleCancelled = FALSE /\ groupCancelled = FALSE
    /\ spc = "off" /\ pkgIdx = 1 /\ groupErr = FALSE
    /\ tasks = <<>> /\ mu = NoOwner
    /\ wpc = [w \in Workers |-> "off"]
    /\ task = [w \in Workers |-> ZeroTask]
    /\ isFailing = [w \in Workers |-> FALSE]
    /\ execErr = [w \in Workers |-> FALSE]
    /\ budgetElapsed = [w \in Workers |-> FALSE]
    /\ sandbox = [w \in Workers |-> "none"]
    /\ waitRes = [w \in Workers |-> "none"]
    /\ workerErr = [w \in Workers |-> FALSE]
    /\ leftRunning = [w \in Workers |-> FALSE]
    /\ CallersIdle

InitQueue == ProgramNotStarted /\ NoCall /\ ParserNotStarted

NextQueue ==
    \E g \in Workers :
       \/ \E t \in QueueTasks : EnqueueLock(g, t)
       \/ EnqueueLoad(g) \/ EnqueueStore(g)
       \/ DequeueLock(g) \/ DequeueLoad(g) \/ DequeueStore(g)
       \/ QueueUnlock(g)
       \/ LengthCall(g) \/ LengthLoad(g) \/ LengthReturn(g)

SpecQueue == InitQueue /\ [][NextQueue]_vars

\* SpecCalc: CalculateFuzzSeconds is applied once to arguments drawn from
\* CalcInputs: syncFrequency >= 0 in units, numWorkers >= 1, totalTargets
\* >= 1, and the arguments of TestCalculateFuzzSeconds
ExampleSyncSeconds == 13073
ExampleWorkers == 7
ExampleTargets == 43
ExampleFuzzSeconds == 1867

CalcInputs ==
    ((0 .. MaxCalcUnits) \X (1 .. MaxCalcWorkers) \X (1 .. MaxCalcTargets))
    \cup {<<ExampleSyncSeconds * Second, ExampleWorkers, ExampleTargets>>}

InitCalc ==
    /\ ProgramNotStarted
    /\ callArgs \in CalcInputs
    /\ callRet = NoReturn
    /\ ParserNotStarted

\* the call and its return
CallCalculateFuzzSeconds ==
    /\ callRet = NoReturn
    /\ callRet' = CalculateFuzzSeconds(callArgs[1], callArgs[2], callArgs[3])
    /\ UNCHANGED <<cfgVars, lifeVars, ctxVars, schedVars, queueVars, workerVars,
                   callerVars, callArgs, parserVars>>

NextCalc == CallCalculateFuzzSeconds

SpecCalc == InitCalc /\ [][NextCalc]_vars

(***************************************************************************)
(* int64 arithmetic of time.Duration.  A nanosecond count does not fit the *)
(* integers of the model checker, so it is held as Limbs: five digits in   *)
(* base 10^6, least significant first.                                     *)
(***************************************************************************)
LimbBase == 1000 * 1000

NumLimbs == 1 .. 5

\* the natural number n < 10^12 as Limbs
LimbsOfNat(n) == <<n % LimbBase, n \div LimbBase, 0, 0, 0>>

\* a < b
LimbsLess(a, b) ==
    \E m \in NumLimbs :
       /\ a[m] < b[m]
       /\ \A i \in NumLimbs : i > m => a[i] = b[i]

\* a * k for a small natural k (every a[i] * k + carry fits the checker)
LimbsMulSmall(a, k) ==
    LET p1 == a[1] * k
        p2 == a[2] * k + p1 \div LimbBase
        p3 == a[3] * k + p2 \div LimbBase
        p4 == a[4] * k + p3 \div LimbBase
        p5 == a[5] * k + p4 \div LimbBase
    IN  <<p1 % LimbBase, p2 % LimbBase, p3 % LimbBase, p4 % LimbBase, p5 % LimbBase>>

\* a * 10^6
LimbsShift(a) == <<0, a[1], a[2], a[3], a[4]>>

\* a - b for a >= b
LimbsSub(a, b) ==
    LET d1 == a[1] - b[1]
        d2 == a[2] - b[2] - (IF d1 < 0 THEN 1 ELSE 0)
        d3 == a[3] - b[3] - (IF d2 < 0 THEN 1 ELSE 0)
        d4 == a[4] - b[4] - (IF d3 < 0 THEN 1 ELSE 0)
        d5 == a[5] - b[5] - (IF d4 < 0 THEN 1 ELSE 0)
    IN  <<d1 % LimbBase, d2 % LimbBase, d3 % LimbBase, d4 % LimbBase, d5 % LimbBase>>

\* 2^64 = 18 446744 073709 551616 and 2^63 = 9 223372 036854 775808
TwoTo64 == <<551616, 73709, 446744, 18, 0>>

TwoTo63 == <<775808, 36854, 223372, 9, 0>>

\* an int64: sign and magnitude
Int64(negative, magnitude) == [neg |-> negative, mag |-> magnitude]

\* the int64 that holds the natural number x < 10^24 after wrap-around:
\* x mod 2^64, read as two's complement
WrapInt64(x) ==
    LET q == CHOOSE k \in 0 .. (x[4] \div 18 + 1) :
                 /\ ~LimbsLess(x, LimbsMulSmall(TwoTo64, k))
                 /\ LimbsLess(x, LimbsMulSmall(TwoTo64, k + 1))
        r == LimbsSub(x, LimbsMulSmall(TwoTo64, q))
    IN  IF LimbsLess(r, TwoTo63) THEN Int64(FALSE, r)
        ELSE Int64(TRUE, LimbsSub(TwoTo64, r))

\* the nanoseconds of a duration d >= 0 of the model: d * (10^9 / Second)
DurationNanos(d) == LimbsShift(LimbsMulSmall(LimbsOfNat(d), 1000 \div Second))

\* a duration used as it is
AsDuration(d) == Int64(FALSE, DurationNanos(d))

\* time.Duration(d) * time.Second for d >= 0: the int64 product of the
\* nanoseconds of d and 10^9
TimesSecond(d) == WrapInt64(LimbsShift(LimbsMulSmall(DurationNanos(d), 1000)))

\* what scheduleFuzzing computes between discovery and the worker pool:
\* fuzzSeconds, its rejection, and the perTargetTimeout given to RunWorker
NoBudget == [fuzzSeconds |-> 0, rejected |-> FALSE, perTargetTimeout |-> Int64(FALSE, <<>>)]

PerTargetBudget(syncFrequency, workers, totalTargets) ==
    LET fuzzSeconds == CalculateFuzzSeconds(syncFrequency, workers, totalTargets)
    IN  [fuzzSeconds |-> fuzzSeconds,
         rejected |-> BudgetRejected(fuzzSeconds),
         perTargetTimeout |->
             IF BudgetRejected(fuzzSeconds) THEN AsDuration(0)
             ELSE TimesSecond(fuzzSeconds)]

\* SpecBudget: the budget computation of scheduleFuzzing applied once to
\* arguments drawn from BudgetInputs: those of CalcInputs and the
\* configuration of the end-to-end test (3m, 3 workers, 5 targets)
E2ESyncSeconds == 180
E2EWorkers == 3
E2ETargets == 5
E2EFuzzSeconds == 90

E2EInput == <<E2ESyncSeconds * Second, E2EWorkers, E2ETargets>>

BudgetInputs == CalcInputs \cup {E2EInput}

InitBudget ==
    /\ ProgramNotStarted
    /\ callArgs \in BudgetInputs
    /\ callRet = NoBudget
    /\ ParserNotStarted

ComputeBudget ==
    /\ callRet = NoBudget
    /\ callRet' = PerTargetBudget(callArgs[1], callArgs[2], callArgs[3])
    /\ UNCHANGED <<cfgVars, lifeVars, ctxVars, schedVars, queueVars, workerVars,
                   callerVars, callArgs, parserVars>>

NextBudget == ComputeBudget

SpecBudget == InitBudget /\ [][NextBudget]_vars

\* SpecParser: the processors of the two targets parse the output of their
\* sandboxes.  Each sandbox prints either the output drawn from
\* StreamShapes or one line of progress; the failing inputs its lines name
\* are in place.
ParsersReady(shapeSet) ==
    /\ ProgramNotStarted
    /\ NoCall
    /\ \E shapes \in shapeSet :
          stream \in [Parsers -> {LinesFor(shapes, "FuzzParse"), LinesFor(shapes, "FuzzWalk"),
                                  <<PlainLine>>}]
    /\ \A p \in Parsers : \A i \in 1 .. Len(stream[p]) : stream[p][i].target \in {"", p}
    /\ results = [n \in {} |-> <<>>]
    /\ corpus = UNION {FilesNamed(stream[p]) : p \in Parsers}
    /\ ppc = [p \in Parsers |-> "idle"]
    /\ ppos = [p \in Parsers |-> 0]
    /\ errorData = [p \in Parsers |-> NoErrorData]
    /\ pret = [p \in Parsers |-> FALSE]
    /\ pruns = [p \in Parsers |-> 0]
    /\ reads = [p \in Parsers |-> <<>>]
    /\ logs = [p \in Parsers |-> <<>>]
    /\ logFile = [p \in Parsers |-> "nil"]
    /\ closeCalls = [p \in Parsers |-> 0]

InitParser == ParsersReady(StreamShapes) /\ resultsInWorkspace = FALSE

NextParser ==
    \E p \in Parsers :
       \/ BeginProcessFuzzStream(p)
       \/ ScanUntilFailure(p)
       \/ CreateFailureLog(p)
       \/ ProcessFailureLine(p)
       \/ FinishFailureLog(p)
       \/ RemoveFailingInputs(p)

SpecParser == InitParser /\ [][NextParser]_vars

\* the results directory after os.RemoveAll(filepath.Dir(cfg.Project.SrcDir))
\* succeeded: RemoveAll takes everything under the parent directory
RemoveAllUnderParent(fs, underParent) ==
    IF underParent THEN [n \in {} |-> <<>>] ELSE fs

\* the end of a cycle in StartFuzzCycles, once every worker has returned:
\* utils.CleanupWorkspace, then the next cycle.  A RemoveAll that fails
\* leaves the files.
CleanupWorkspaceFiles ==
    /\ cycle <= MaxCycles
    /\ \A p \in Parsers : ppc[p] = "idle"
    /\ \E p \in Parsers : pruns[p] >= 1
    /\ \E outcome \in CleanupWorkspace("present") :
          /\ workspace' = outcome
          /\ results' = IF outcome = "clean"
                        THEN RemoveAllUnderParent(results, resultsInWorkspace)
                        ELSE results
          /\ corpus' = IF outcome = "clean" THEN {} ELSE corpus
    /\ cycle' = cycle + 1
    /\ UNCHANGED <<cfgVars, mpc, doneChan, exitCode, ctxVars, schedVars, queueVars,
                   workerVars, callerVars, callArgs, callRet>>
    /\ UNCHANGED <<stream, ppc, ppos, errorData, pret, pruns, reads, logs, logFile,
                   closeCalls>>

\* SpecCleanup: the processors of SpecParser over the cycles of
\* StartFuzzCycles, with the results directory under the workspace parent
\* or elsewhere; the sandboxes print a crash, a crash with its failing
\* input, or progress only
CleanupShapes == {<<"fail">>, <<"fail", "writtenA">>, <<"plain">>}

InitCleanup == ParsersReady(CleanupShapes) /\ resultsInWorkspace \in BOOLEAN

NextCleanup ==
    \/ \E p \in Parsers :
          \/ BeginProcessFuzzStream(p)
          \/ ScanUntilFailure(p)
          \/ CreateFailureLog(p)
          \/ ProcessFailureLine(p)
          \/ FinishFailureLog(p)
          \/ RemoveFailingInputs(p)
    \/ CleanupWorkspaceFiles

SpecCleanup == InitCleanup /\ [][NextCleanup]_vars


\* SpecLive: the program under the scheduling the Go runtime gives its
\* goroutines, with sandbox operations that honour cancellation: a call made
\* under a cancelled context returns before the budget of its task passes
TaskDeadlineBeforeCancel(w) == ~WorkerCtxErr /\ TaskDeadline(w)

\* the steps of the goroutine of worker w
WorkerStep(w) ==
    \/ WorkerDequeue(w)
    \/ ContainerCreate(w) \/ ContainerStart(w) \/ ContainerLogs(w)
    \/ ProcessFuzzStream(w) \/ ContainerWait(w) \/ WaitSelect(w)
    \/ RemoveFailingInput(w) \/ ContainerStop(w)
    \/ WorkerAfterExec(w)

\* the steps of the goroutine of scheduleFuzzing
SchedulerStep ==
    \/ ListTargetsOK \/ ListTargetsFail
    \/ NoTargets \/ InvalidDuration \/ SpawnWorkers
    \/ GroupWaitError \/ GroupWaitDone

\* the steps StartFuzzCycles takes by itself; the timer and the signal are
\* the environment's
LifecycleStep ==
    \/ CloneOK \/ CloneFail \/ CloneCancelled
    \/ SelectDone \/ SelectParent \/ TimerCleanup \/ ParentCleanup

NextLive ==
    \/ CloneOK \/ CloneFail \/ CloneCancelled
    \/ SelectDone \/ SelectTimer \/ SelectParent
    \/ TimerCleanup \/ ParentCleanup \/ ParentCancel
    \/ ListTargetsOK \/ ListTargetsFail
    \/ NoTargets \/ InvalidDuration \/ SpawnWorkers
    \/ GroupWaitError \/ GroupWaitDone
    \/ \E w \in Workers :
          \/ WorkerDequeue(w) \/ TaskDeadlineBeforeCancel(w)
          \/ ContainerCreate(w) \/ ContainerStart(w) \/ ContainerLogs(w)
          \/ ProcessFuzzStream(w) \/ ContainerWait(w) \/ WaitSelect(w)
          \/ RemoveFailingInput(w) \/ ContainerStop(w)
          \/ WorkerAfterExec(w)

SpecLive ==
    /\ Init /\ [][NextLive]_vars
    /\ WF_vars(LifecycleStep)
    /\ WF_vars(SchedulerStep)
    /\ \A w \in Workers : WF_vars(WorkerStep(w))

(***************************************************************************)
(* Properties                                                              *)
(***************************************************************************)
\* the bag of the elements of a sequence
SeqToBag(seq) ==
    [x \in {seq[i] : i \in 1 .. Len(seq)} |->
        Cardinality({i \in 1 .. Len(seq) : seq[i] = x})]

\* the steps at which ExecuteFuzzTarget can decide to return an error from
\* a sandbox call: create, start, attach logs, the select on the wait
SandboxCallSteps == {"create", "start", "logs", "select"}

\* worker w takes the step that follows the return of ExecuteFuzzTarget
LeavesReturned(w) == wpc[w] = "returned" /\ wpc'[w] # "returned"

\* C1: no two workers hold the same Task at the same time: while two
\* workers are both between their Dequeue and the end of their
\* ExecuteFuzzTarget call, their tasks differ.
C1_NoTaskHeldTwice ==
    \A w1, w2 \in Workers :
        (w1 # w2 /\ wpc[w1] \in ExecSteps /\ wpc[w2] \in ExecSteps)
            => task[w1] # task[w2]

\* C2: no task is lost or duplicated: the tasks taken by successful
\* Dequeue calls together with the tasks in the queue are, as a multiset,
\* the tasks that Enqueue calls have stored.
C2_NoLossNoDuplication ==
    SeqToBag(deqHist) (+) SeqToBag(tasks) = SeqToBag(enqHist)

\* C2 witness: two tasks were enqueued by interleaved calls, one was taken,
\* one waits, and a goroutine is about to store while the other waits for q.mu
C2_Witness ==
    /\ Len(deqHist) >= 1 /\ Len(tasks) >= 1
    /\ \E g, h \in Workers :
          /\ g # h
          /\ qpc[g] \in {"enq_store", "deq_store"}
          /\ qpc[h] = "idle"

\* C3: the queue is FIFO: the tasks taken so far followed by the tasks that
\* wait are exactly the tasks in the order their Enqueue calls stored them.
C3_Fifo == deqHist \o tasks = enqHist

\* C3 witness: a task that was taken and enqueued again waits behind a task
\* that was enqueued before its second Enqueue
C3_Witness ==
    /\ Len(deqHist) >= 1
    /\ Len(tasks) >= 2
    /\ tasks[Len(tasks)] = deqHist[1]
    /\ tasks[1] # deqHist[1]

\* C4: Length is mutually exclusive with Enqueue and Dequeue: it loads
\* q.tasks only while no goroutine holds q.mu.
C4_LengthMutuallyExclusive ==
    [][\A g \in Workers :
          (qpc[g] = "len_load" /\ qpc'[g] = "len_ret") => mu = NoOwner]_vars

\* C5: Dequeue never blocks, and on an empty queue it returns ok = false
\* and leaves the queue as it is; the worker then returns nil without
\* starting a sandbox.
C5_EmptyDequeueEndsWorker ==
    /\ [](\A w \in Workers :
            (Running /\ wpc[w] = "dequeue") => ENABLED WorkerDequeue(w))
    /\ [][\A w \in Workers :
            (wpc[w] = "dequeue" /\ QueueEmpty(tasks) /\ wpc'[w] # "dequeue")
                => /\ tasks' = tasks
                   /\ wpc'[w] = "done"
                   /\ ~workerErr'[w]
                   /\ sandbox'[w] = sandbox[w]
                   /\ task'[w] = task[w]]_vars

\* C5 witness: a worker found the queue empty and returned nil while its
\* sibling is still running a task
C5_Witness ==
    \E w, v \in Workers :
        /\ w # v
        /\ wpc[w] = "done" /\ ~workerErr[w] /\ sandbox[w] = "none"
        /\ tasks = <<>>
        /\ wpc[v] \in ExecSteps

\* C6: a worker re-enqueues its task if and only if the run took at least
\* taskTimeout and ended without an error and without a crash observed.
C6_RequeueIffCleanFullRun ==
    [][\A w \in Workers :
          LeavesReturned(w)
              => ((tasks' # tasks)
                    <=> (budgetElapsed[w] /\ ~execErr[w] /\ ~isFailing[w]))]_vars

\* C7: once the worker context is cancelled (timer, parent, sibling error)
\* no worker re-enqueues a task.
C7_NoRequeueAfterCancel ==
    [][\A w \in Workers :
          (WorkerCtxErr /\ LeavesReturned(w)) => tasks' = tasks]_vars

\* C8: with the cycle context cancelled, no step of ExecuteFuzzTarget
\* (create, start, attach logs, wait error, non-zero status) makes it
\* return an error.
C8_CancelledRunReturnsNil ==
    [][\A w \in Workers :
          (WorkerCtxErr /\ wpc[w] \in SandboxCallSteps /\ wpc'[w] # wpc[w])
              => ~execErr'[w]]_vars

\* C9: when the parser observed a crash marker, ExecuteFuzzTarget returns
\* nil, whatever the wait delivered and however the cleanup of the failing
\* input went.
C9_CrashIsNotAnError ==
    \A w \in Workers :
        (wpc[w] \in {"stop", "returned"} /\ isFailing[w]) => ~execErr[w]

\* C10: a worker whose sandbox run ended in an execution error returns that
\* error; the worker context is then cancelled; and the program exits with
\* a non-zero status, only after every worker of the cycle has returned.
C10_ExecutionErrorEndsCycle ==
    /\ \A w \in Workers : wpc[w] = "done" => (workerErr[w] <=> execErr[w])
    /\ (\E w \in Workers : workerErr[w]) => (groupErr /\ groupCancelled)
    /\ groupErr => exitCode \in {"running", "exit1"}
    /\ (groupErr /\ exitCode = "exit1")
           => \A w \in Workers : w <= numWorkers => wpc[w] = "done"

\* C10 witness: the program exited 1 after a worker's execution error, and
\* the sibling, which had started a sandbox, returned nil before the exit
C10_Witness ==
    /\ exitCode = "exit1" /\ groupErr
    /\ \E w, v \in Workers :
          /\ w # v
          /\ workerErr[w]
          /\ wpc[v] = "done" /\ ~workerErr[v] /\ sandbox[v] # "none"

\* the scheduleFuzzing of the cycle has ended: it returned, or it left the
\* process through os.Exit
CycleTerminated ==
    \/ spc = "returned"
    \/ spc \in {"list", "queued", "wait"} /\ exitCode \in {"exit0", "exit1"}

\* C11: in every cycle doneChan is closed once, only after every worker of
\* the cycle has returned, and on every termination of the cycle (worker
\* error, zero targets and invalid budget included).
C11_DoneOncePerCycle ==
    /\ doneChan = "closed" =>
           /\ spc = "returned"
           /\ \A w \in Workers : wpc[w] \in {"off", "done"}
    /\ CycleTerminated => doneChan = "closed"

\* C12: after doneChan was closed no sandbox of the cycle is running, also
\* when the stop of the sandbox failed.
C12_NoRunningSandboxAfterDone ==
    doneChan = "closed" => \A w \in Workers : sandbox[w] # "running"

\* the call sites of CleanupWorkspace: the clone failure, the three branches
\* of the select and the os.Exit paths of scheduleFuzzing
CleanupCallSite ==
    \/ CloneFail \/ CloneCancelled
    \/ SelectDone \/ TimerCleanup \/ ParentCleanup
    \/ ListTargetsFail \/ NoTargets \/ InvalidDuration \/ GroupWaitError

\* C13: CleanupWorkspace runs only when every worker of the cycle has
\* returned, so never while a worker holds a sandbox.
C13_CleanupAfterWorkers ==
    [][CleanupCallSite => \A w \in Workers : wpc[w] \in {"off", "done"}]_vars

\* C13 witness: the workspace was cleaned after a cycle whose worker had
\* run and stopped a sandbox
C13_Witness ==
    /\ mpc = "clone" /\ cycle >= 2 /\ workspace = "clean"
    /\ \E w \in Workers : wpc[w] = "done" /\ sandbox[w] = "stopped"

\* C14: a sandbox that was created is stopped before ExecuteFuzzTarget
\* returns, on every path, and the stop does not depend on the context of
\* the cycle or of the task: it can succeed whatever their state.
C14_StopOnEveryPath ==
    /\ [](\A w \in Workers :
             (Running /\ wpc[w] = "stop") =>
                 ENABLED (ContainerStop(w) /\ sandbox'[w] = "stopped"))
    /\ [][\A w \in Workers :
             (/\ wpc[w] \in ExecSteps
              /\ sandbox[w] # "none"
              /\ wpc'[w] = "returned") => wpc[w] = "stop"]_vars

\* C14 witness: ExecuteFuzzTarget returned with its sandbox stopped although
\* the context of the cycle was cancelled while the sandbox ran
C14_Witness ==
    \E w \in Workers :
        /\ wpc[w] = "returned" /\ sandbox[w] = "stopped"
        /\ cycleCancelled /\ ~execErr[w]

\* the cycle context was cancelled by the timer or for the parent's sake
CycleCancelledByScheduler == mpc \in {"wait_timer", "wait_parent"}

\* C15: when the timer fires or the parent context is cancelled, the cycle
\* context is cancelled and then every worker eventually returns and
\* doneChan is eventually closed.
C15_CancelLeadsToDone ==
    CycleCancelledByScheduler ~>
        (/\ doneChan = "closed"
         /\ \A w \in Workers : wpc[w] \in {"off", "done"})

RECURSIVE TotalTargets(_)
TotalTargets(pkgs) ==
    IF pkgs = <<>> THEN 0
    ELSE Len(FuzzTargetsOf(Head(pkgs))) + TotalTargets(Tail(pkgs))

\* C17: a cycle that ends because the timer fired, at any moment, with the
\* parent not cancelled and no fatal error (worker error, invalid budget), is
\* followed by the next cycle: the process does not exit.
C17_TimerIsFollowedByNextCycle ==
    [][(/\ mpc = "wait_timer" /\ Running
        /\ ~parentCancelled
        /\ TotalTargets(pkgsPath) > 0
        /\ ~groupErr
        /\ ~InvalidDuration) => exitCode' = "running"]_vars

\* C18: once the parent context is cancelled, and unless a sandbox failed
\* (worker error) or the budget is invalid, the program ends with status 0
\* wherever the lifecycle loop stands: StartFuzzCycles returns or the exit
\* status is 0.
C18_GracefulShutdownExitsZero ==
    [][(/\ parentCancelled /\ Running
        /\ exitCode' # "running"
        /\ ~groupErr
        /\ ~InvalidDuration) => exitCode' \in {"exit0", "returned"}]_vars

\* C19: when discovery found no target, scheduleFuzzing calls
\* CleanupWorkspace and exits with status 0 and no worker or sandbox was
\* started; packages without targets never get a worker.  (scheduleFuzzing
\* has no upload step.)
C19_NoTargetsExitsZero ==
    /\ [](TotalTargets(pkgsPath) = 0 =>
             \A w \in Workers : wpc[w] = "off" /\ sandbox[w] = "none")
    /\ [][(spc = "queued" /\ QueueEmpty(tasks) /\ SchedulerStep) =>
             /\ exitCode' = "exit0"
             /\ workspace' \in CleanupWorkspace(workspace)
             /\ \A w \in Workers : wpc'[w] = "off" /\ sandbox'[w] = "none"]_vars

\* C19 witness: the packages have no fuzz target and the program has cleaned
\* the workspace and exited 0
C19_Witness ==
    /\ TotalTargets(pkgsPath) = 0 /\ spc = "queued" /\ QueueEmpty(tasks)
    /\ exitCode = "exit0" /\ workspace = "clean"

\* ceil(total / n), the least k with k * n >= total
CeilDiv(total, n) == CHOOSE k \in 0 .. total : k * n >= total /\ (k - 1) * n < total

\* floor(a / b) for a >= 0 and b >= 1, the greatest t with t * b <= a
FloorDiv(a, b) == CHOOSE t \in 0 .. a : t * b <= a /\ a < (t + 1) * b

\* C20: CalculateFuzzSeconds(D, N, total) is floor(floor(D in seconds) /
\* ceil(total / N)) whole seconds, for N >= 1 and total >= 1, so that
\* T * ceil(total / N) <= D; D = 3h37m53s, N = 7, total = 43 give 31m7s.
C20_FuzzSecondsFormula ==
    callRet # NoReturn =>
        LET D == callArgs[1]
            N == callArgs[2]
            total == callArgs[3]
            T == callRet
        IN  /\ T = FloorDiv(FloorDiv(D, Second), CeilDiv(total, N)) * Second
            /\ T * CeilDiv(total, N) <= D
            /\ (callArgs = <<ExampleSyncSeconds * Second, ExampleWorkers, ExampleTargets>>)
                   => T = ExampleFuzzSeconds * Second

\* C20 witness: the call of the test returned 31m7s
C20_Witness ==
    /\ callArgs = <<ExampleSyncSeconds * Second, ExampleWorkers, ExampleTargets>>
    /\ callRet = ExampleFuzzSeconds * Second

\* C21: the timeout handed to every worker (the deadline of each task and
\* -fuzztime) is T = floor(D in seconds / ceil(total / N)) seconds itself,
\* neither rescaled nor wrapped around; D = 3m, N = 3 and 5 targets give 90s.
C21_TimeoutIsBudget ==
    (callRet # NoBudget /\ ~callRet.rejected) =>
        LET D == callArgs[1]
            N == callArgs[2]
            total == callArgs[3]
            T == FloorDiv(FloorDiv(D, Second), CeilDiv(total, N)) * Second
        IN  /\ callRet.perTargetTimeout = AsDuration(T)
            /\ callArgs = E2EInput =>
                   callRet.perTargetTimeout = AsDuration(E2EFuzzSeconds * Second)

\* the budget T of the queued targets, in whole seconds
QueuedBudgetSeconds == FloorDiv(syncSeconds, CeilDiv(Len(tasks), numWorkers))

\* discovery is over, targets are queued and their budget is not positive
BudgetNotPositive ==
    /\ Running /\ spc = "queued" /\ Len(tasks) >= 1
    /\ QueuedBudgetSeconds <= 0

\* C22: a computed budget T <= 0 is rejected: scheduleFuzzing can only clean
\* the workspace and exit with status 1; no worker is spawned and no sandbox
\* is started, before or after.
C22_NonPositiveBudgetRejected ==
    [][BudgetNotPositive =>
          /\ ENABLED InvalidDuration
          /\ \A w \in Workers :
                /\ wpc[w] = "off" /\ sandbox[w] = "none"
                /\ wpc'[w] = "off" /\ sandbox'[w] = "none"
          /\ spc' = "queued"
          /\ exitCode' \in {"running", "exit1"}
          /\ exitCode' = "exit1" => workspace' \in CleanupWorkspace(workspace)]_vars

\* C22 witness: two targets queued for one worker and one second; the
\* program left with status 1, the workspace removed, no worker ever started
C22_Witness ==
    /\ spc = "queued" /\ Len(tasks) = 2 /\ numWorkers = 1 /\ syncSeconds = 1
    /\ QueuedBudgetSeconds <= 0
    /\ exitCode = "exit1" /\ workspace = "clean"
    /\ \A w \in Workers : wpc[w] = "off" /\ sandbox[w] = "none"

\* the crash reports of target t under the results directory
CrashReportsOf(t) == {n \in DOMAIN results : n[1] = t}

\* C23: for every target the results directory holds no crash report or
\* one, however many runs of the target took place and however the
\* processors of the workers interleave.
C23_AtMostOneCrashReport ==
    \A t \in Parsers : Cardinality(CrashReportsOf(t)) <= 1

\* C23 witness: a target crashed in two runs and has one report, while the
\* processor of another target is writing its own
C23_Witness ==
    \E t \in Parsers, u \in Parsers :
       /\ t # u
       /\ pruns[t] = MaxRuns /\ Len(logs[t]) = 2
       /\ Cardinality(CrashReportsOf(t)) = 1
       /\ ppc[u] = "processFailureLines" /\ ppos[u] < Len(stream[u])

\* some line of the stream contains `--- FAIL:`
HasFailMarker(lines) == \E i \in 1 .. Len(lines) : lines[i].text = FailMarker

\* the processor is past the marker: it creates the log or writes to it
Capturing(p) == ppc[p] \in {"createLog", "processFailureLines"}

\* C24: processFuzzStream returns true iff some line of the stream contains
\* `--- FAIL:` (lines the scanner can return), and the step from Scanning to
\* Capturing is taken once: a processor that captures goes on capturing
\* until it returns true.
C24_TrueIffFailMarker ==
    [][\A p \in Parsers :
          /\ ppc'[p] = "returned" => (pret'[p] <=> HasFailMarker(stream'[p]))
          /\ Capturing(p) =>
                /\ ppc'[p] \in {"createLog", "processFailureLines", "returned"}
                /\ ppc'[p] = "returned" => pret'[p]]_vars

\* C24 witness: a stream of three lines with the marker on the second one
\* made processFuzzStream return true
C24_Witness ==
    \E p \in Parsers :
       /\ ppc[p] = "returned" /\ pret[p]
       /\ Len(stream[p]) = 3
       /\ stream[p][1].text # FailMarker /\ stream[p][2].text = FailMarker

\* C25: the crash log is created lazily.  A stream without `--- FAIL:`
\* leaves the results directory as it was, and <Target>_failure.log comes
\* into being only in the step that follows the marker line.
C25_LogCreatedLazily ==
    [][\A p \in Parsers :
          /\ (~HasFailMarker(stream[p]) /\ (ppc'[p] # ppc[p] \/ ppos'[p] # ppos[p]))
                => results' = results
          /\ ~HasFailMarker(stream[p]) => logPath(p) \notin DOMAIN results'
          /\ (logPath(p) \notin DOMAIN results /\ logPath(p) \in DOMAIN results')
                => /\ ppc[p] = "createLog"
                   /\ ppos[p] >= 1 /\ stream[p][ppos[p]].text = FailMarker]_vars

\* C25 witness: a stream without the marker was parsed to its end and left
\* no file, while another target has its crash log
C25_Witness ==
    \E p \in Parsers, q \in Parsers :
       /\ ppc[p] = "returned" /\ ~pret[p] /\ Len(stream[p]) >= 1
       /\ logPath(p) \notin DOMAIN results
       /\ logPath(q) \in DOMAIN results

\* the place of the first line that contains `--- FAIL:`
FirstMarker(lines) ==
    CHOOSE i \in 1 .. Len(lines) :
       /\ lines[i].text = FailMarker
       /\ \A j \in 1 .. (i - 1) : lines[j].text # FailMarker

\* the lines of the stream after the marker line
CapturedLines(p) == SubSeq(stream[p], FirstMarker(stream[p]) + 1, Len(stream[p]))

IsLogLine(entry) == entry.text \notin {TestcaseHeader, FailedToRead}

\* the crash log that processFuzzStream left when it returned true
CrashLogDone(p) == ppc[p] = "returned" /\ pret[p]

\* C26: the crash log starts with the raw log from the marker on: the
\* marker line is its first line, followed by every later line of the
\* stream in order.
C26_LogStartsAtMarkerLine ==
    \A p \in Parsers :
       CrashLogDone(p) =>
          SelectSeq(results[logPath(p)], IsLogLine)
              = SubSeq(stream[p], FirstMarker(stream[p]), Len(stream[p]))

\* the places of the captured lines that fuzzFailureRegex matches
MatchingLines(lines) == {i \in 1 .. Len(lines) : parseFailureLine(lines[i]) # NoMatch}

C28_SeedEntryGivesPlaceholder ==
    \A p \in Parsers :
       (/\ CrashLogDone(p)
        /\ \E i \in 1 .. Len(CapturedLines(p)) :
              CapturedLines(p)[i] = SeedLine(p, SeedId))
       => /\ logPath(p) \in DOMAIN results
          /\ \E j \in 1 .. Len(results[logPath(p)]) :
                results[logPath(p)][j].text = FailedToRead

\* C29: parsing the same stream again for the same target leaves a crash
\* log equal byte for byte to that of the first run, also after the first
\* run removed the directory of the failing inputs.
C29_ReparseGivesSameLog ==
    \A p \in Parsers :
       \A i \in 1 .. Len(logs[p]), j \in 1 .. Len(logs[p]) : logs[p][i] = logs[p][j]

\* C30: a CleanupWorkspace that fails is logged and nothing more, and the
\* next cycle still starts: whenever StartFuzzCycles stands before the clone
\* of a cycle with the parent context live, the clone can succeed and start
\* scheduleFuzzing with its worker pool, whatever the cleanup of the cycle
\* before left behind.
C30_NextCycleStartsAfterFailedCleanup ==
    (/\ Running /\ mpc = "clone" /\ cycle <= MaxCycles
     /\ ~parentCancelled)
    => ENABLED CloneOK

\* C31: CleanupWorkspace deletes what lies under the parent of SrcDir but
\* not the results directory: every crash log written in this or an earlier
\* cycle is still there, unchanged, after the cleanup, also when the results
\* directory lies under the same parent as SrcDir.
C31_CleanupKeepsCrashLogs ==
    [][cycle' = cycle + 1 =>
          \A n \in DOMAIN results :
             n \in DOMAIN results' /\ results'[n] = results[n]]_vars

\* the cleanup that ends a cycle whose workers ran: the three branches of
\* the select, taken after scheduleFuzzing returned from g.Wait()
CycleEndCleanup ==
    /\ spc = "returned"
    /\ (SelectDone \/ TimerCleanup \/ ParentCleanup)

\* C32: in every cycle that ran workers and ends because all workers are
\* done, because the timer fired or because the parent was cancelled, the
\* corpus is uploaded, and the upload is over before the cleanup of the
\* workspace begins.
C32_UploadBeforeCleanup ==
    [][CycleEndCleanup => cycle \in bucket]_vars

\* C33: on every path by which the program ends once a cycle has begun
\* (clone failure, discovery failure, no target, invalid budget, worker
\* error, parent cancellation) CleanupWorkspace is executed after the last
\* clone and before the exit: the step that ends the program is one of
\* these, and each of them removes the workspace unless RemoveAll fails.
C33_CleanupBeforeEveryExit ==
    /\ [](/\ ENABLED CloneFail => ENABLED (CloneFail /\ workspace' = "clean")
          /\ ENABLED CloneCancelled => ENABLED (CloneCancelled /\ workspace' = "clean")
          /\ ENABLED ListTargetsFail => ENABLED (ListTargetsFail /\ workspace' = "clean")
          /\ ENABLED NoTargets => ENABLED (NoTargets /\ workspace' = "clean")
          /\ ENABLED InvalidDuration => ENABLED (InvalidDuration /\ workspace' = "clean")
          /\ ENABLED GroupWaitError => ENABLED (GroupWaitError /\ workspace' = "clean")
          /\ ENABLED ParentCleanup => ENABLED (ParentCleanup /\ workspace' = "clean"))
    /\ [][(Running /\ exitCode' # "running") =>
             \/ CloneFail \/ CloneCancelled
             \/ ListTargetsFail \/ NoTargets \/ InvalidDuration \/ GroupWaitError
             \/ ParentCleanup]_vars

\* C33 witness: a worker error ended the program in its second cycle with
\* the workspace removed
C33_Witness ==
    /\ exitCode = "exit1" /\ groupErr /\ spc = "wait"
    /\ cycle = 2 /\ workspace = "clean"


\* the sandboxes of worker w that are alive: the one of its task and the one
\* an earlier task of the cycle left running
LiveSandboxes(w) ==
    (IF StillRunning(sandbox[w]) THEN 1 ELSE 0) + (IF leftRunning[w] THEN 1 ELSE 0)

\* C34: a worker never has two sandboxes alive at once, so at every moment of
\* a cycle at most cfg.Fuzz.NumWorkers sandboxes are alive.
C34_OneLiveSandboxPerWorker ==
    /\ \A w \in Workers : LiveSandboxes(w) <= 1
    /\ Cardinality({w \in Workers : StillRunning(sandbox[w])})
          + Cardinality({w \in Workers : leftRunning[w]}) <= numWorkers


\* C35: the deadline of a task is a leaf context.  Its expiry cancels the
\* sandbox operations of that task only: the contexts of the cycle stay as
\* they are, the tasks of the other workers are not cancelled and keep their
\* position and sandbox, and the worker whose task ran out goes on to dequeue
\* its next task, which starts with a deadline of its own.
C35_TaskDeadlineIsLeaf ==
    /\ [][\A w \in Workers :
            (~budgetElapsed[w] /\ budgetElapsed'[w]) =>
                /\ TaskCtxErr(w)'
                /\ UNCHANGED ctxVars
                /\ WorkerCtxErr' = WorkerCtxErr
                /\ \A v \in Workers \ {w} :
                      /\ TaskCtxErr(v)' = TaskCtxErr(v)
                      /\ wpc'[v] = wpc[v] /\ sandbox'[v] = sandbox[v]
                      /\ execErr'[v] = execErr[v] /\ task'[v] = task[v]]_vars
    /\ [][\A w \in Workers :
            (/\ wpc[w] = "returned" /\ budgetElapsed[w] /\ ~execErr[w]
             /\ wpc'[w] # wpc[w] /\ Running') =>
                /\ wpc'[w] = "dequeue"
                /\ ~budgetElapsed'[w]
                /\ ~groupCancelled' \/ groupCancelled]_vars

\* C35 witness: the deadline of one task has passed and cancelled it, while
\* the task of another worker runs in its sandbox, not cancelled
C35_Witness ==
    \E w \in Workers, v \in Workers :
        /\ w # v
        /\ wpc[w] \in ExecSteps /\ budgetElapsed[w] /\ TaskCtxErr(w)
        /\ wpc[v] \in ExecSteps /\ sandbox[v] = "running" /\ ~TaskCtxErr(v)


(***************************************************************************)
(* K8sJob (k8sjob.go): Start, WaitAndGetLogs and Stop of the fuzzing jobs  *)
(* that run in parallel on one cluster, as TestKubernetesRace launches     *)
(* them.  The goroutine of WaitAndGetLogs is followed from one suspension  *)
(* point to the next.  Nothing receives from the channels: the caller may  *)
(* have left its select through taskCtx.Done(), so a send goes through     *)
(* only while the buffer of the channel has room.                          *)
(***************************************************************************)
\* fmt.Sprintf("fuzz-job-%d", time.Now().Unix())
JobNameAt(t) == <<"fuzz-job", t>>

k8sUntouched ==
    UNCHANGED <<pkgsPath, numWorkers, syncSeconds, resultsInWorkspace, bucket,
                reportVars, lifeVars, ctxVars, schedVars, queueVars, workerVars, callerVars,
                fnVars>>

\* a second of the wall clock passes
Tick ==
    /\ clock < MaxClock
    /\ clock' = clock + 1
    /\ UNCHANGED <<cluster, kpc, jobName, kctx, crashed, observed, pending,
                   failingChan, errChan, stopped>>
    /\ k8sUntouched

\* the timeout of taskCtx passes, or its parent is cancelled
CancelJobCtx(k) ==
    /\ ~kctx[k]
    /\ kctx' = [kctx EXCEPT ![k] = TRUE]
    /\ UNCHANGED <<clock, cluster, kpc, jobName, crashed, observed, pending,
                   failingChan, errChan, stopped>>
    /\ k8sUntouched

\* K8sJob.Start: the name, then Jobs("default").Create(k.ctx, job, ...), which
\* fails when a Job of that name exists or k.ctx is done; on success the
\* caller starts `go k8sJob.WaitAndGetLogs(...)`
Start(k) ==
    /\ kpc[k] = "idle"
    /\ jobName' = [jobName EXCEPT ![k] = JobNameAt(clock)]
    /\ \E ok \in BOOLEAN :
          /\ ok => (JobNameAt(clock) \notin cluster /\ ~kctx[k])
          /\ IF ok
             THEN /\ cluster' = cluster \cup {JobNameAt(clock)}
                  /\ kpc' = [kpc EXCEPT ![k] = "pod"]
             ELSE /\ cluster' = cluster
                  /\ kpc' = [kpc EXCEPT ![k] = "startFailed"]
    /\ UNCHANGED <<clock, kctx, crashed, observed, pending, failingChan, errChan,
                   stopped>>
    /\ k8sUntouched

\* pod, err := k.waitForPod(jobName): returns on k.ctx.Done(), on a failed
\* Pods.List (which a done k.ctx makes fail), or with a pod that is running,
\* succeeded or failed
WaitForPod(k) ==
    /\ kpc[k] = "pod"
    /\ \E r \in {"ctx", "listErr", "found"} :
          /\ r = "ctx" => kctx[k]
          /\ r = "found" => ~kctx[k]
          /\ IF r = "found"
             THEN /\ kpc' = [kpc EXCEPT ![k] = "logs"]
                  /\ pending' = pending
             ELSE /\ kpc' = [kpc EXCEPT ![k] = "send"]
                  /\ pending' = [pending EXCEPT ![k] = <<"errChan", r>>]
    /\ UNCHANGED <<clock, cluster, jobName, kctx, crashed, observed, failingChan,
                   errChan, stopped>>
    /\ k8sUntouched

\* logsStream, err := logsReq.Stream(k.ctx)
OpenLogs(k) ==
    /\ kpc[k] = "logs"
    /\ \E ok \in BOOLEAN :
          /\ ok => ~kctx[k]
          /\ IF ok
             THEN /\ kpc' = [kpc EXCEPT ![k] = "process"]
                  /\ pending' = pending
             ELSE /\ kpc' = [kpc EXCEPT ![k] = "send"]
                  /\ pending' = [pending EXCEPT ![k] = <<"errChan", "streamErr">>]
    /\ UNCHANGED <<clock, cluster, jobName, kctx, crashed, observed, failingChan,
                   errChan, stopped>>
    /\ k8sUntouched

\* crashed := processor.processFuzzStream(logsStream), which returns when the
\* stream ends: the container exited or k.ctx is done; `if crashed {
\* failingChan <- true; return }`
ProcessLogs(k) ==
    /\ kpc[k] = "process"
    /\ \E crash \in BOOLEAN :
          /\ crashed' = [crashed EXCEPT ![k] = crash]
          /\ IF crash
             THEN /\ kpc' = [kpc EXCEPT ![k] = "send"]
                  /\ pending' = [pending EXCEPT ![k] = <<"failingChan", TRUE>>]
             ELSE /\ kpc' = [kpc EXCEPT ![k] = "job"]
                  /\ pending' = pending
    /\ UNCHANGED <<clock, cluster, jobName, kctx, observed, failingChan, errChan,
                   stopped>>
    /\ k8sUntouched

\* what waitForJobCompletion returns: nil for a Job that succeeded
JobResult(r) == IF r = "succeeded" THEN "nil" ELSE r

\* errChan <- k.waitForJobCompletion(jobName): returns on k.ctx.Done(), on a
\* failed Jobs.Get (which a done k.ctx makes fail), or with the status of a
\* Job that succeeded or failed
WaitForJobCompletion(k) ==
    /\ kpc[k] = "job"
    /\ \E r \in {"ctx", "getErr", "succeeded", "failed"} :
          /\ r = "ctx" => kctx[k]
          /\ kctx[k] => r \in {"ctx", "getErr"}
          /\ observed' = [observed EXCEPT ![k] = r]
          /\ pending' = [pending EXCEPT ![k] = <<"errChan", JobResult(r)>>]
    /\ kpc' = [kpc EXCEPT ![k] = "send"]
    /\ UNCHANGED <<clock, cluster, jobName, kctx, crashed, failingChan, errChan,
                   stopped>>
    /\ k8sUntouched

\* a send on failingChan that is not followed by `return`
FallThroughAfterCrash(ch) == IF ch = "failingChan" THEN "job" ELSE "returned"

\* every send of WaitAndGetLogs is its last statement or is followed by
\* `return`
AfterSend(ch) == "returned"

\* the send WaitAndGetLogs is at goes through once the buffer has room
ChanSend(k) ==
    /\ kpc[k] = "send"
    /\ IF pending[k][1] = "failingChan"
       THEN /\ Len(failingChan[k]) < ChanCap
            /\ failingChan' = [failingChan EXCEPT ![k] = Append(@, pending[k][2])]
            /\ errChan' = errChan
       ELSE /\ Len(errChan[k]) < ChanCap
            /\ errChan' = [errChan EXCEPT ![k] = Append(@, pending[k][2])]
            /\ failingChan' = failingChan
    /\ kpc' = [kpc EXCEPT ![k] = AfterSend(pending[k][1])]
    /\ pending' = [pending EXCEPT ![k] = <<>>]
    /\ UNCHANGED <<clock, cluster, jobName, kctx, crashed, observed, stopped>>
    /\ k8sUntouched

\* K8sJob.Stop, deferred by the caller of Start: Jobs("default").Delete(
\* context.Background(), jobName, ...), run once the caller has left its
\* select
Stop(k) ==
    /\ kpc[k] \notin {"idle", "startFailed"} /\ ~stopped[k]
    /\ kctx[k] \/ errChan[k] # <<>> \/ failingChan[k] # <<>>
    /\ cluster' = cluster \ {jobName[k]}
    /\ stopped' = [stopped EXCEPT ![k] = TRUE]
    /\ UNCHANGED <<clock, kpc, jobName, kctx, crashed, observed, pending,
                   failingChan, errChan>>
    /\ k8sUntouched

WaitAndGetLogsStep(k) ==
    \/ WaitForPod(k) \/ OpenLogs(k) \/ ProcessLogs(k)
    \/ WaitForJobCompletion(k) \/ ChanSend(k)

InitK8s == ProgramNotStarted /\ NoCall /\ ParserNotStarted

NextK8s ==
    \/ Tick
    \/ \E k \in Jobs :
          \/ CancelJobCtx(k) \/ Start(k) \/ Stop(k)
          \/ WaitForPod(k) \/ OpenLogs(k) \/ ProcessLogs(k)
          \/ WaitForJobCompletion(k) \/ ChanSend(k)

SpecK8s == InitK8s /\ [][NextK8s]_vars

\* a goroutine of WaitAndGetLogs whose k.ctx is done keeps being scheduled:
\* its tickers fire and its calls under k.ctx return
SpecK8sLive ==
    /\ SpecK8s
    /\ \A k \in Jobs : WF_vars(kctx[k] /\ WaitAndGetLogsStep(k))

\* C36: K8sJob.Start generates a job name that is unique to the call: two
\* workers that call Start, also within the same second of the clock, never
\* get the same job name.
C36_JobNamesUnique ==
    \A j \in Jobs, k \in Jobs :
        (j # k /\ jobName[j] # NoName /\ jobName[k] # NoName) =>
            jobName[j] # jobName[k]

\* the values WaitAndGetLogs of job k has sent, over both channels
SendsOf(k) == Len(failingChan[k]) + Len(errChan[k])

\* C39: WaitAndGetLogs sends exactly once over failingChan and errChan
\* together on every path: `true` on failingChan exactly when the parser
\* saw a crash, otherwise its result on errChan, which is nil exactly when
\* the Job was seen to have succeeded; and with room for one value in each
\* channel it returns once k.ctx is done.
C39_OneSendThenReturn ==
    /\ [](\A k \in Jobs :
            /\ SendsOf(k) <= 1
            /\ kpc[k] \in {"pod", "logs", "process", "job"} => SendsOf(k) = 0
            /\ kpc[k] = "returned" =>
                  /\ SendsOf(k) = 1
                  /\ failingChan[k] = <<TRUE>> <=> crashed[k]
                  /\ ~crashed[k] => errChan[k] # <<>>
                  /\ errChan[k] = <<"nil">> <=> observed[k] = "succeeded")
    /\ \A k \in Jobs :
          (kctx[k] /\ kpc[k] \in {"pod", "logs", "process", "job", "send"})
              ~> (kpc[k] = "returned")

\* C39 witness: one job returned after it reported a crash on failingChan,
\* the other after its context was cancelled, with the error on errChan
C39_Witness ==
    \E j \in Jobs, k \in Jobs :
        /\ kpc[j] = "returned" /\ crashed[j] /\ failingChan[j] = <<TRUE>>
        /\ errChan[j] = <<>>
        /\ kpc[k] = "returned" /\ kctx[k] /\ errChan[k] = <<"ctx">>
        /\ failingChan[k] = <<>>


(***************************************************************************)
(* The master state of the coverage report (report.go).  updateReport is   *)
(* called for the target a worker has just run, so the calls of different  *)
(* workers are for different targets and can overlap.  addToMaster is      *)
(* followed from one file operation to the next; the file operations       *)
(* succeed.                                                                *)
(***************************************************************************)
ReportTargets == {<<1, 1>>, <<1, 2>>, <<2, 1>>}

\* the less function handed to sort.Slice
StateLess(a, b) == IF a[1] = b[1] THEN a[2] < b[2] ELSE a[1] < b[1]

RECURSIVE InsertSorted(_, _)
InsertSorted(sorted, x) ==
    IF sorted = <<>> THEN <<x>>
    ELSE IF StateLess(x, Head(sorted)) THEN <<x>> \o sorted
    ELSE <<Head(sorted)>> \o InsertSorted(Tail(sorted), x)

\* sort.Slice(states, ...)
RECURSIVE SortStates(_)
SortStates(states) ==
    IF states = <<>> THEN <<>>
    ELSE InsertSorted(SortStates(Tail(states)), Head(states))

\* `for _, s := range states { if s.PkgPath == r.pkg && s.Target == r.target`
HasTarget(states, t) == \E i \in 1 .. Len(states) : states[i] = t

reportUntouched ==
    UNCHANGED <<pkgsPath, numWorkers, syncSeconds, resultsInWorkspace, bucket,
                k8sVars, lifeVars, ctxVars, schedVars, queueVars, workerVars,
                callerVars, fnVars>>

\* updateReport reaches covReport.addToMaster() for the target worker w ran,
\* which no other worker is running
BeginAddToMaster(w, t) ==
    /\ rpc[w] = "idle" /\ rcalls[w] < MaxReports
    /\ \A v \in Workers : rpc[v] # "idle" => rtarget[v] # t
    /\ rpc' = [rpc EXCEPT ![w] = "load"]
    /\ rtarget' = [rtarget EXCEPT ![w] = t]
    /\ rcalls' = [rcalls EXCEPT ![w] = @ + 1]
    /\ UNCHANGED <<stateFile, indexFile, rstates, registered>>
    /\ reportUntouched

\* states, err := loadMasterState(statePath); the target that is present
\* already makes addToMaster return nil
LoadMasterState(w) ==
    /\ rpc[w] = "load"
    /\ rstates' = [rstates EXCEPT ![w] = stateFile]
    /\ IF HasTarget(stateFile, rtarget[w])
       THEN /\ rpc' = [rpc EXCEPT ![w] = "idle"]
            /\ registered' = registered \cup {rtarget[w]}
       ELSE /\ rpc' = [rpc EXCEPT ![w] = "save"]
            /\ registered' = registered
    /\ UNCHANGED <<stateFile, indexFile, rtarget, rcalls>>
    /\ reportUntouched

\* states = append(states, TargetState{r.pkg, r.target}); sort.Slice(...);
\* saveMasterState(statePath, states)
SaveMasterState(w) ==
    /\ rpc[w] = "save"
    /\ rstates' = [rstates EXCEPT ![w] = SortStates(Append(@, rtarget[w]))]
    /\ stateFile' = rstates'[w]
    /\ rpc' = [rpc EXCEPT ![w] = "index"]
    /\ UNCHANGED <<indexFile, rtarget, rcalls, registered>>
    /\ reportUntouched

\* the entries are made from states, index.html is created and the template
\* is executed into it; addToMaster returns nil
WriteIndex(w) ==
    /\ rpc[w] = "index"
    /\ indexFile' = rstates[w]
    /\ rpc' = [rpc EXCEPT ![w] = "idle"]
    /\ registered' = registered \cup {rtarget[w]}
    /\ UNCHANGED <<stateFile, rstates, rtarget, rcalls>>
    /\ reportUntouched

InitReport == ProgramNotStarted /\ NoCall /\ ParserNotStarted

NextReport ==
    \E w \in Workers :
       \/ \E t \in ReportTargets : BeginAddToMaster(w, t)
       \/ LoadMasterState(w)
       \/ SaveMasterState(w)
       \/ WriteIndex(w)

SpecReport == InitReport /\ [][NextReport]_vars

\* C37: the targets for which addToMaster returned are all in state.json,
\* also when the calls of two workers for different targets overlapped, and
\* state.json is sorted by (package, target) and holds no target twice.
C37_NoLostReportUpdate ==
    /\ \A t \in registered : HasTarget(stateFile, t)
    /\ \A i \in 1 .. Len(stateFile) - 1 : StateLess(stateFile[i], stateFile[i + 1])


(***************************************************************************)
(* utils.SanitizeURL (utils/utils.go).  A raw URL is the sequence of its   *)
(* pieces as written: scheme, "://", the user info with its ":" and "@",   *)
(* host, port and path.  url.Parse and URL.String are followed for the     *)
(* pieces they change: Parse lower-cases the scheme and rejects a port     *)
(* that is not a number and user info with a character outside its set;    *)
(* String escapes the user info.                                           *)
(***************************************************************************)
NoUser == <<>>

RawURLs ==
    [scheme : {"https", "HTTPS"},
     user : {NoUser, <<"user">>, <<"user", "pass">>, <<"user", "pa ss">>},
     host : {"github.com", "example.org"},
     port : {"", ":443", ":port"},
     path : {"/OWNER/REPO.git", ""}]

\* the user info as it stands in a URL string
UserInfoString(user) ==
    IF user = NoUser THEN <<>>
    ELSE IF Len(user) = 1 THEN <<user[1], "@">>
    ELSE <<user[1], ":", user[2], "@">>

\* the string a URL is written as
URLString(u) ==
    <<u.scheme, "://">> \o UserInfoString(u.user) \o <<u.host, u.port, u.path>>

\* strings.ToLower on a scheme
ToLower(str) == IF str = "HTTPS" THEN "https" ELSE str

\* url.Parse returns an error: invalid port, or invalid userinfo
ParseFails(u) ==
    \/ u.port = ":port"
    \/ \E i \in 1 .. Len(u.user) : u.user[i] = "pa ss"

\* url.Parse, for a URL it accepts
Parse(u) == [u EXCEPT !.scheme = ToLower(u.scheme)]

\* url.User("*****")
Placeholder == <<"*****">>

\* the escaping of a piece of user info by URL.String
EscapeUserInfo(str) == IF str = "*****" THEN "%2A%2A%2A%2A%2A" ELSE str

\* URL.String
String(u) ==
    URLString([u EXCEPT !.user = [i \in 1 .. Len(u.user) |-> EscapeUserInfo(u.user[i])]])

\* SanitizeURL(rawURL)
SanitizeURL(u) ==
    IF ParseFails(u) THEN URLString(u)
    ELSE LET parsed == Parse(u)
         IN String(IF parsed.user # NoUser
                   THEN [parsed EXCEPT !.user = Placeholder]
                   ELSE parsed)

\* no string returned yet
NoString == <<>>

InitURL ==
    /\ ProgramNotStarted
    /\ callArgs \in RawURLs
    /\ callRet = NoString
    /\ ParserNotStarted

\* the call and its return
CallSanitizeURL ==
    /\ callRet = NoString
    /\ callRet' = SanitizeURL(callArgs)
    /\ UNCHANGED <<cfgVars, lifeVars, ctxVars, schedVars, queueVars, workerVars,
                   callerVars, callArgs, parserVars>>

NextURL == CallSanitizeURL

SpecURL == InitURL /\ [][NextURL]_vars

\* a string holds the piece
Contains(str, piece) == \E i \in 1 .. Len(str) : str[i] = piece

\* C38: for a URL with user info, what SanitizeURL returns has the
\* placeholder where the user info stood and holds neither the user name nor
\* the password; a URL without user info is returned unchanged.
C38_CredentialsMasked ==
    callRet # NoString =>
        IF callArgs.user # NoUser
        THEN /\ callRet[3] = EscapeUserInfo("*****") /\ callRet[4] = "@"
             /\ \A i \in 1 .. Len(callArgs.user) : ~Contains(callRet, callArgs.user[i])
        ELSE callRet = URLString(callArgs)


(***************************************************************************)
(* SpecParserIO: the output parser with a results directory whose          *)
(* operations can fail.                                                    *)
(***************************************************************************)
InitParserIO == ParsersReady(StreamShapes) /\ resultsInWorkspace = FALSE

NextParserIO ==
    \E p \in Parsers :
       \/ BeginProcessFuzzStream(p)
       \/ ScanUntilFailure(p)
       \/ CreateFailureLog(p)
       \/ CreateFailureLogFails(p)
       \/ ProcessFailureLine(p)
       \/ WriteStringFails(p)
       \/ FinishFailureLog(p)
       \/ RemoveFailingInputs(p)

SpecParserIO == InitParserIO /\ [][NextParserIO]_vars

\* C40: a crash is reported also when its log cannot be written.  When the
\* results directory or the crash log cannot be created after a `--- FAIL:`
\* line, processFuzzStream returns true, the run leaves no crash file (the
\* results directory is as it was) and closes no file; when the log was
\* created, also when a later write fails, the file is closed exactly once.
C40_CrashReportedWithoutLog ==
    /\ [](\A p \in Parsers :
            (ppc[p] = "returned" /\ (\E i \in 1 .. ppos[p] : stream[p][i].text = FailMarker))
                => /\ pret[p]
                   /\ \/ logFile[p] = "nil" /\ closeCalls[p] = 0
                      \/ logFile[p] = "closed" /\ closeCalls[p] = 1)
    /\ [][\A p \in Parsers :
            (ppc[p] = "createLog" /\ ppc'[p] = "returned") =>
                /\ pret'[p]
                /\ results' = results
                /\ logFile'[p] = "nil" /\ closeCalls'[p] = 0]_vars
    /\ [][\A p \in Parsers :
            (ppc[p] = "processFailureLines" /\ ppc'[p] = "returned") =>
                /\ pret'[p]
                /\ logFile'[p] = "closed" /\ closeCalls'[p] = 1]_vars

\* C40 witness: one processor returned true although its crash log could
\* not be created, no file of its target in the results directory; the
\* other returned true after a write to its log failed before the end of the
\* stream, the log closed once
C40_Witness ==
    \E p \in Parsers, q \in Parsers :
        /\ ppc[p] = "returned" /\ pret[p] /\ logFile[p] = "nil"
        /\ closeCalls[p] = 0 /\ logPath(p) \notin DOMAIN results
        /\ ppc[q] = "returned" /\ pret[q] /\ ppos[q] < Len(stream[q])
        /\ logFile[q] = "closed" /\ closeCalls[q] = 1

====
